---- MODULE Spec2Model ----
(***************************************************************************)
(* Memory curation subsystem of the AI vector memory service.              *)
(*                                                                         *)
(* The store is the vector-database collection addressed by id; the        *)
(* curator (memory_curator.py) reads the whole collection, decides, and    *)
(* writes back; the HTTP layer (memory_curation_api.py,                    *)
(* memory_api_server.py) passes the JSON body through.                     *)
(*                                                                         *)
(* Representation.  A content is its sequence of lines (content.split on   *)
(* the newline); the empty content is the single empty line.  A metadata   *)
(* mapping is a function whose DOMAIN is the set of keys present.  Time is *)
(* counted in half days since 2024-01-01T00:00, so a date-only string      *)
(* parses to an even number and datetime.now() may be odd (noon).          *)
(*                                                                         *)
(* op is the request in flight; op2 is a second request served beside it,  *)
(* used for two deduplicate calls that run concurrently.                   *)
(***************************************************************************)
EXTENDS Integers, Sequences, FiniteSets, TLC

VARIABLES store, files, now, op, nextUuid, archivedEver, adds, op2

vars == <<store, files, now, op, nextUuid, archivedEver, adds, op2>>

(***************************************************************************)
(* Bounds of the model: successful adds to the collection, clock ticks.    *)
(***************************************************************************)
MaxAdds == 3
MaxTicks == 1

(***************************************************************************)
(* Clock and dates.                                                        *)
(***************************************************************************)
TicksPerDay == 2
StartNow == 801

\* the calendar: day number of each date the model writes down
DayOfDate ==
  ("2024-01-01" :> 0) @@ ("2024-10-01" :> 274) @@
  ("2025-02-04" :> 400) @@ ("2025-02-05" :> 401) @@ ("2025-02-06" :> 402)

\* datetime.now().strftime('%Y-%m-%d')
Today(t) ==
  LET d == t \div TicksPerDay
  IN  CHOOSE s \in DOMAIN DayOfDate : DayOfDate[s] = d

\* strftime('%Y%m%d') of the days the clock of the model reaches
Stamp ==
  ("2025-02-04" :> "20250204") @@ ("2025-02-05" :> "20250205") @@
  ("2025-02-06" :> "20250206")

\* Path('memory_archive') / f"archive_{datetime.now().strftime('%Y%m%d')}.json"
ArchivePath(t) == "memory_archive/archive_" \o Stamp[Today(t)] \o ".json"

\* Date strings that carry an explicit UTC designator ("...Z").
ZuluDates == {"2024-01-01T00:00:00Z"}
ZuluDay == ("2024-01-01T00:00:00Z" :> 0)

\* datetime.fromisoformat(date_str.replace('Z', '+00:00')):
\* a naive datetime, an offset-aware datetime, or ValueError.
ParseDate(s) ==
  IF s \in DOMAIN DayOfDate
    THEN [ok |-> TRUE, aware |-> FALSE, tick |-> DayOfDate[s] * TicksPerDay]
  ELSE IF s \in ZuluDates
    THEN [ok |-> TRUE, aware |-> TRUE, tick |-> ZuluDay[s] * TicksPerDay]
  ELSE [ok |-> FALSE, aware |-> FALSE, tick |-> 0]

\* The body of the try block "memory_date = parse(...); if memory_date <
\* cutoff_date": comparing an offset-aware datetime with the naive cutoff
\* raises TypeError, which the bare except swallows like a ValueError.
OlderThan(s, cutoff) ==
  LET p == ParseDate(s)
  IN  /\ p.ok
      /\ ~p.aware
      /\ p.tick < cutoff

(***************************************************************************)
(* Python mappings.                                                        *)
(***************************************************************************)
Has(m, k) == k \in DOMAIN m
Get(m, k, default) == IF k \in DOMAIN m THEN m[k] ELSE default
\* dict.update / item assignment
Update(m, n) == n @@ m

(***************************************************************************)
(* Contents.                                                               *)
(***************************************************************************)
\* placeholder lines standing for long prose, with their character counts
ProseLen ==
  ("<prose of 600 characters>" :> 600) @@ ("<prose of 300 characters>" :> 300)

CharLen(line) == IF line \in DOMAIN ProseLen THEN ProseLen[line] ELSE Len(line)

RECURSIVE SumLen(_)
SumLen(lines) ==
  IF lines = <<>> THEN 0 ELSE CharLen(Head(lines)) + SumLen(Tail(lines))

\* len(content): the lines and the newlines between them
ContentLen(content) == SumLen(content) + (Len(content) - 1)

\* truthiness of a str
NonEmpty(content) == ContentLen(content) > 0

\* the line that opens or closes a fenced code block (three backquotes)
CodeFence == "<code fence>"

\* the code-fence marker occurs in content
HasCodeBlock(content) == \E i \in 1..Len(content) : content[i] = CodeFence

\* content.count(marker)
CountCodeFences(content) ==
  Cardinality({i \in 1..Len(content) : content[i] = CodeFence})

\* the technology keywords each line of the vocabulary contains
LineKeywords ==
  ("python flask notes for the api server" :> {"python", "flask"})

KeywordsOf(line) ==
  IF line \in DOMAIN LineKeywords THEN LineKeywords[line] ELSE {}

RECURSIVE JoinLines(_)
\* the text of a content, as content.encode() sees it
JoinLines(lines) ==
  IF lines = <<>> THEN ""
  ELSE IF Len(lines) = 1 THEN Head(lines)
  ELSE Head(lines) \o "\n" \o JoinLines(Tail(lines))

\* hashlib.md5(content.encode()).hexdigest(): equal digests for equal texts
\* and, on the contents of this model, different digests for different texts
Md5(content) == "md5:" \o JoinLines(content)

(***************************************************************************)
(* JSON text.                                                              *)
(***************************************************************************)
\* json.dumps(list)
JsonDumps(list) == [kind |-> "json_array", items |-> list]

\* the values of a "technologies" key of a JSON body: a list, or null
JsonList(items) == [kind |-> "array", items |-> items]
JsonNull == [kind |-> "null", items |-> <<>>]

\* json.dumps(value) of a body value: json.dumps(None) is the text null
JsonDumpsValue(value) ==
  IF value.kind = "null" THEN [kind |-> "json_null", items |-> <<>>]
  ELSE JsonDumps(value.items)

\* json.loads(text): the list, None for the text null (iterable FALSE), or a
\* raised JSONDecodeError (ok FALSE)
JsonLoads(text) ==
  IF text.kind = "json_array"
    THEN [ok |-> TRUE, iterable |-> TRUE, items |-> text.items]
  ELSE IF text.kind = "json_null"
    THEN [ok |-> TRUE, iterable |-> FALSE, items |-> <<>>]
  ELSE [ok |-> FALSE, iterable |-> FALSE, items |-> <<>>]

\* truthiness of a JSON body value ("omitted" marks a key that is not sent)
JsonValues == {"omitted", "true", "false", "null"}
Falsy(v) == v \in {"false", "null"}

\* data.get('dry_run', True)
DryRunArg(v) == IF v = "omitted" THEN "true" ELSE v

(***************************************************************************)
(* The collection (vector store), addressed by id.  The collection is a     *)
(* library object; of it the model keeps what the curator relies on: add   *)
(* inserts a new id and raises on an id already there, get returns the     *)
(* records found in collection order, update writes the given metadata     *)
(* keys of one id, delete of an absent id is a no-op, and a delete may     *)
(* raise, which the callers catch.                                         *)
(***************************************************************************)
Range(seq) == {seq[i] : i \in 1..Len(seq)}

StoreIds(st) == {st[i].id : i \in 1..Len(st)}

\* collection.count()
Count(st) == Len(st)

RECURSIVE Filter(_, _)
\* collection.get(ids=...): the stored records among the requested ids,
\* in collection order
Filter(st, ids) ==
  IF st = <<>> THEN <<>>
  ELSE IF Head(st).id \in ids THEN <<Head(st)>> \o Filter(Tail(st), ids)
  ELSE Filter(Tail(st), ids)

\* a delete that is not idempotent: an absent id makes it drop the oldest
\* record
StoreDeleteOrOldest(st, id) ==
  IF id \in StoreIds(st) THEN Filter(st, StoreIds(st) \ {id})
  ELSE IF st = <<>> THEN st ELSE Tail(st)

\* collection.delete(ids=[id]): removing an absent id is a no-op
StoreDelete(st, id) == Filter(st, StoreIds(st) \ {id})

\* collection.add(documents=[content], metadatas=[metadata], ids=[id])
StoreAdd(st, id, content, metadata) ==
  Append(st, [id |-> id, content |-> content, metadata |-> metadata])

\* the record stored under an id
Lookup(st, id) == CHOOSE m \in Range(st) : m.id = id

RECURSIVE StoreUpdateRewriting(_, _, _)
\* StoreUpdate passing documents too: the stored content is written over
StoreUpdateRewriting(st, id, metadata) ==
  IF st = <<>> THEN <<>>
  ELSE IF Head(st).id = id
    THEN <<[Head(st) EXCEPT !.metadata = Update(Head(st).metadata, metadata),
                            !.content = <<"">>]>>
           \o Tail(st)
  ELSE <<Head(st)>> \o StoreUpdateRewriting(Tail(st), id, metadata)

RECURSIVE StoreUpdate(_, _, _)
\* collection.update(ids=[id], metadatas=[metadata]): the given keys are
\* written over the stored metadata
StoreUpdate(st, id, metadata) ==
  IF st = <<>> THEN <<>>
  ELSE IF Head(st).id = id
    THEN <<[Head(st) EXCEPT !.metadata = Update(Head(st).metadata, metadata)]>>
           \o Tail(st)
  ELSE <<Head(st)>> \o StoreUpdate(Tail(st), id, metadata)

(***************************************************************************)
(* The request in flight.  pc = "idle" before the first request, "done"    *)
(* once the handler has returned, "crashed" when the process died inside   *)
(* it; the other values are positions inside a handler.                    *)
(***************************************************************************)
NoResult == << >>

IdleOp ==
  [name |-> "none", pc |-> "idle", dry_run |-> "true", days |-> 0,
   cutoff_date |-> 0,
   duplicates_to_remove |-> <<>>, to_archive |-> <<>>, idx |-> 0,
   deleted |-> <<>>, failed |-> <<>>,
   before |-> <<>>, beforeFiles |-> << >>, path |-> "",
   arg |-> << >>, actions |-> <<>>, status |-> 0, result |-> NoResult]

Busy == op.pc \notin {"idle", "done", "crashed"}

Init ==
  /\ store = <<>>
  /\ files = << >>
  /\ now = StartNow
  /\ op = IdleOp
  /\ op2 = IdleOp
  /\ nextUuid = 1
  /\ archivedEver = {}
  /\ adds = 0

\* a request starts from the state the previous one left
NewOp(name) ==
  [IdleOp EXCEPT !.name = name, !.before = store, !.beforeFiles = files]

(***************************************************************************)
(* POST /api/add_memory                                                    *)
(***************************************************************************)
ContentA == <<"fix: fixed by updating the null check">>
ContentC == <<"totally different topic about databases">>
ContentEmpty == <<"">>

\* the JSON bodies the model posts
AddBodies ==
  { ("content" :> ContentA) @@ ("title" :> "Bug A") @@ ("date" :> "2024-01-01") @@ ("id" :> "mA"),
    ("content" :> ContentA),
    ("content" :> ContentC) @@ ("title" :> "Untitled") @@ ("date" :> "2024-10-01") @@ ("id" :> "mC"),
    ("content" :> ContentC) @@ ("date" :> "2024-01-01T00:00:00Z") @@ ("id" :> "mZ"),
    ("content" :> ContentEmpty) @@ ("date" :> "invalid-date") @@ ("id" :> "mE")
           @@ ("metadata" :> ("date" :> "2024-01-01")),
    ("title" :> "No content") }

ContentFlask == <<"python flask notes for the api server">>

\* bodies that send a technologies value
TechBodies ==
  { ("content" :> ContentFlask) @@ ("title" :> "Flask notes") @@ ("id" :> "t1")
      @@ ("technologies" :> JsonList(<<"python", "flask">>)),
    ("content" :> ContentC) @@ ("title" :> "Databases") @@ ("id" :> "t2")
      @@ ("technologies" :> JsonList(<<"flask", "sql">>))
      @@ ("metadata" :> ("date" :> "2024-10-01")),
    ("content" :> ContentA) @@ ("title" :> "Bug A") @@ ("id" :> "t3")
      @@ ("technologies" :> JsonNull) }

\* bodies whose ids collide: two under the id mA, and one without an id
IdBodies ==
  { ("content" :> ContentA) @@ ("title" :> "Bug A") @@ ("date" :> "2024-01-01") @@ ("id" :> "mA"),
    ("content" :> ContentC) @@ ("title" :> "Other") @@ ("id" :> "mA"),
    ("content" :> ContentA) }

\* str(uuid.uuid4()): a fresh id at every call
Uuid(n) == CHOOSE s \in {"uuid-1", "uuid-2", "uuid-3", "uuid-4", "uuid-5"} :
             s = "uuid-" \o ToString(n)

\* the metadata written for a body
AddMetadata(data, t) ==
  Update(Get(data, "metadata", << >>),
         ("title" :> Get(data, "title", "Untitled Memory")) @@
         ("session_date" :> Get(data, "date", Today(t))) @@
         ("source" :> Get(data, "source", "claude_desktop")) @@
         ("technologies" :> JsonDumpsValue(Get(data, "technologies", JsonList(<<>>)))) @@
         ("complexity" :> Get(data, "complexity", "medium")) @@
         ("project" :> Get(data, "project", "")) @@
         ("indexed_at" :> t) @@
         ("via_api" :> TRUE) @@
         ("conversation_length" :> ContentLen(data["content"])) @@
         ("code_blocks" :> CountCodeFences(data["content"])))

\* AddMemory writing with upsert: an add under an existing id replaces the record
AddMemoryUpserting(data) ==
  /\ ~Busy
  /\ adds < MaxAdds
  /\ IF ~Has(data, "content")
       THEN \* VALIDATION_ERROR
            /\ op' = [NewOp("add_memory") EXCEPT !.pc = "done", !.status = 400,
                        !.result = ("success" :> FALSE)]
            /\ UNCHANGED <<store, nextUuid>>
       ELSE LET generated == ~Has(data, "id")
                doc_id == IF generated THEN Uuid(nextUuid) ELSE data["id"]
            IN  /\ nextUuid' = IF generated THEN nextUuid + 1 ELSE nextUuid
                /\ IF doc_id \in StoreIds(store)
                     THEN /\ store' = StoreAdd(StoreDelete(store, doc_id), doc_id,
                                               data["content"],
                                               AddMetadata(data, now))
                          /\ op' = [NewOp("add_memory") EXCEPT !.pc = "done",
                                      !.status = 201, !.arg = <<doc_id>>,
                                      !.result = ("success" :> TRUE) @@
                                                 ("id" :> doc_id)]
                     ELSE /\ store' = StoreAdd(store, doc_id, data["content"],
                                               AddMetadata(data, now))
                          /\ op' = [NewOp("add_memory") EXCEPT !.pc = "done",
                                      !.status = 201, !.arg = <<doc_id>>,
                                      !.result = ("success" :> TRUE) @@
                                                 ("id" :> doc_id)]
  /\ adds' = adds + (Len(store') - Len(store))
  /\ UNCHANGED <<files, now, archivedEver, op2>>

AddMemory(data) ==
  /\ ~Busy
  /\ adds < MaxAdds
  /\ IF ~Has(data, "content")
       THEN \* VALIDATION_ERROR
            /\ op' = [NewOp("add_memory") EXCEPT !.pc = "done", !.status = 400,
                        !.result = ("success" :> FALSE)]
            /\ UNCHANGED <<store, nextUuid>>
       ELSE LET generated == ~Has(data, "id")
                doc_id == IF generated THEN Uuid(nextUuid) ELSE data["id"]
            IN  /\ nextUuid' = IF generated THEN nextUuid + 1 ELSE nextUuid
                /\ IF doc_id \in StoreIds(store)
                     THEN \* the add raises: INDEX_ERROR
                          /\ store' = store
                          /\ op' = [NewOp("add_memory") EXCEPT !.pc = "done",
                                      !.status = 500, !.arg = <<doc_id>>,
                                      !.result = ("success" :> FALSE)]
                     ELSE /\ store' = StoreAdd(store, doc_id, data["content"],
                                               AddMetadata(data, now))
                          /\ op' = [NewOp("add_memory") EXCEPT !.pc = "done",
                                      !.status = 201, !.arg = <<doc_id>>,
                                      !.result = ("success" :> TRUE) @@
                                                 ("id" :> doc_id)]
  /\ adds' = adds + (Len(store') - Len(store))
  /\ UNCHANGED <<files, now, archivedEver, op2>>

\* time passes between requests
Tick ==
  /\ ~Busy
  /\ now < StartNow + MaxTicks
  /\ now' = now + 1
  /\ UNCHANGED <<store, files, op, nextUuid, archivedEver, adds, op2>>


(***************************************************************************)
(* MemoryCurator._calculate_memory_quality_score, in hundredths.           *)
(***************************************************************************)
\* truthiness of a metadata value
TruthyStr(m, k) == Has(m, k) /\ m[k] /= ""
TruthyText(m, k) == Has(m, k) /\ m[k].kind /= "empty"

Min(a, b) == IF a < b THEN a ELSE b

\* QualityScore with the length branches exclusive: contents above 500
\* characters earn nothing
QualityScoreMidLengthOnly(metadata, content) ==
  LET length == IF ContentLen(content) > 200 /\ ContentLen(content) <= 500
                THEN 10 ELSE 0
      title == IF TruthyStr(metadata, "title") /\ metadata["title"] /= "Untitled"
               THEN 20 ELSE 0
      tech == IF TruthyText(metadata, "technologies") THEN 15 ELSE 0
      complexity == IF TruthyStr(metadata, "complexity") THEN 10 ELSE 0
      date == IF TruthyStr(metadata, "date") \/ TruthyStr(metadata, "session_date")
              THEN 10 ELSE 0
      source == IF TruthyStr(metadata, "source") THEN 10 ELSE 0
      code == IF HasCodeBlock(content) THEN 15 ELSE 0
  IN  Min(length + title + tech + complexity + date + source + code, 100)

QualityScore(metadata, content) ==
  LET length == IF ContentLen(content) > 500 THEN 20
                ELSE IF ContentLen(content) > 200 THEN 10 ELSE 0
      title == IF TruthyStr(metadata, "title") /\ metadata["title"] /= "Untitled"
               THEN 20 ELSE 0
      tech == IF TruthyText(metadata, "technologies") THEN 15 ELSE 0
      complexity == IF TruthyStr(metadata, "complexity") THEN 10 ELSE 0
      date == IF TruthyStr(metadata, "date") \/ TruthyStr(metadata, "session_date")
              THEN 10 ELSE 0
      source == IF TruthyStr(metadata, "source") THEN 10 ELSE 0
      code == IF HasCodeBlock(content) THEN 15 ELSE 0
  IN  Min(length + title + tech + complexity + date + source + code, 100)

(***************************************************************************)
(* MemoryCurator.enhance_memory_quality                                    *)
(***************************************************************************)
TechKeywords ==
  <<"python", "javascript", "typescript", "react", "flask", "sql",
    "html", "css", "node", "npm", "git", "docker">>

ContentKeywords(content) == UNION {KeywordsOf(content[i]) : i \in 1..Len(content)}

RECURSIVE SelectSeq2(_, _)
\* the elements of a sequence that belong to a set, in order
SelectSeq2(seq, set) ==
  IF seq = <<>> THEN <<>>
  ELSE IF Head(seq) \in set THEN <<Head(seq)>> \o SelectSeq2(Tail(seq), set)
  ELSE SelectSeq2(Tail(seq), set)

\* line.strip()[:80] of a line of the vocabulary (no outer blanks)
TitleFrom(line) ==
  IF CharLen(line) <= 80 THEN line ELSE "<first 80 characters of> " \o line

RECURSIVE FirstTitleLine(_)
\* the first line with line.strip() and 10 < len(line) < 100, or <<>>
FirstTitleLine(lines) ==
  IF lines = <<>> THEN <<>>
  ELSE IF Head(lines) /= "" /\ CharLen(Head(lines)) > 10
          /\ CharLen(Head(lines)) < 100
    THEN <<TitleFrom(Head(lines))>>
  ELSE FirstTitleLine(Tail(lines))

\* EnhancedMetadata deriving title, technologies and complexity even when the
\* metadata has them
EnhancedMetadataOverwriting(metadata, content, t) ==
  LET line == FirstTitleLine(content)
      m1 == IF line /= <<>> THEN Update(metadata, "title" :> line[1]) ELSE metadata
      found == SelectSeq2(TechKeywords, ContentKeywords(content))
      m2 == IF found /= <<>>
            THEN Update(m1, "technologies" :> JsonDumps(found)) ELSE m1
      m3 == Update(m2, "complexity" :>
                   (IF ContentLen(content) > 1000 \/ HasCodeBlock(content)
                    THEN "high"
                    ELSE IF ContentLen(content) > 500 THEN "medium" ELSE "low"))
  IN  Update(m3, "enhanced_at" :> t)

EnhancedMetadata(metadata, content, t) ==
  LET needTitle == ~TruthyStr(metadata, "title") \/ metadata["title"] = "Untitled"
      line == FirstTitleLine(content)
      m1 == IF needTitle /\ line /= <<>>
            THEN Update(metadata, "title" :> line[1]) ELSE metadata
      found == SelectSeq2(TechKeywords, ContentKeywords(content))
      m2 == IF ~TruthyText(m1, "technologies") /\ found /= <<>>
            THEN Update(m1, "technologies" :> JsonDumps(found)) ELSE m1
      m3 == IF ~TruthyStr(m2, "complexity")
            THEN Update(m2, "complexity" :>
                   (IF ContentLen(content) > 1000 \/ HasCodeBlock(content)
                    THEN "high"
                    ELSE IF ContentLen(content) > 500 THEN "medium" ELSE "low"))
            ELSE m2
  IN  Update(m3, "enhanced_at" :> t)

\* EnhanceMemory reporting a field as added whenever the written metadata has it
EnhanceMemoryReportingPresent(st, memory_id, t) ==
  IF memory_id \notin StoreIds(st)
    THEN [store |-> st,
          result |-> ("success" :> FALSE) @@ ("error" :> "Memory not found")]
    ELSE LET mem == Lookup(st, memory_id)
             enhanced == EnhancedMetadata(mem.metadata, mem.content, t)
         IN  [store |-> StoreUpdate(st, memory_id, enhanced),
              result |->
                ("success" :> TRUE) @@ ("memory_id" :> memory_id) @@
                ("enhancements" :>
                   [title_added |-> Has(enhanced, "title"),
                    technologies_added |-> Has(enhanced, "technologies"),
                    complexity_added |-> Has(enhanced, "complexity")])]

\* the store and the result after enhance_memory_quality(memory_id)
EnhanceMemory(st, memory_id, t) ==
  IF memory_id \notin StoreIds(st)
    THEN [store |-> st,
          result |-> ("success" :> FALSE) @@ ("error" :> "Memory not found")]
    ELSE LET mem == Lookup(st, memory_id)
             enhanced == EnhancedMetadata(mem.metadata, mem.content, t)
         IN  [store |-> StoreUpdate(st, memory_id, enhanced),
              result |->
                ("success" :> TRUE) @@ ("memory_id" :> memory_id) @@
                ("enhancements" :>
                   [title_added |-> Has(enhanced, "title")
                                    /\ ~Has(mem.metadata, "title"),
                    technologies_added |-> Has(enhanced, "technologies")
                                    /\ ~Has(mem.metadata, "technologies"),
                    complexity_added |-> Has(enhanced, "complexity")
                                    /\ ~Has(mem.metadata, "complexity")])]

(***************************************************************************)
(* MemoryCurator.deduplicate_memories                                      *)
(***************************************************************************)
RECURSIVE MarkKeepingLast(_, _)
\* MarkDuplicates marking the earlier memory of a pair instead of the later
MarkKeepingLast(results, content_map) ==
  IF results = <<>> THEN <<>>
  ELSE IF \E m \in Range(Tail(results)) : Md5(m.content) = Md5(Head(results).content)
    THEN <<Head(results).id>> \o MarkKeepingLast(Tail(results), content_map)
  ELSE MarkKeepingLast(Tail(results), content_map)

RECURSIVE MarkDuplicates(_, _)
\* one walk over the collection: the ids whose content hash was seen before
MarkDuplicates(results, content_map) ==
  IF results = <<>> THEN <<>>
  ELSE LET content_hash == Md5(Head(results).content)
       IN  IF content_hash \in content_map
             THEN <<Head(results).id>> \o MarkDuplicates(Tail(results), content_map)
             ELSE MarkDuplicates(Tail(results), content_map \cup {content_hash})

DuplicatesToRemove(results) == MarkDuplicates(results, {})

FirstN(seq, n) == SubSeq(seq, 1, Min(n, Len(seq)))

EmptyDedupResult ==
  ("removed" :> 0) @@ ("message" :> "No memories to deduplicate")

DedupResult(duplicates_to_remove, dry_run) ==
  ("duplicates_found" :> Len(duplicates_to_remove)) @@
  ("removed" :> IF Falsy(dry_run) THEN Len(duplicates_to_remove) ELSE 0) @@
  ("dry_run" :> dry_run) @@
  ("duplicate_ids" :> FirstN(duplicates_to_remove, 10))


(***************************************************************************)
(* MemoryCurator.archive_old_memories                                      *)
(***************************************************************************)
\* metadata.get('date') or metadata.get('session_date'); "" when neither
DateStr(metadata) ==
  IF TruthyStr(metadata, "date") THEN metadata["date"]
  ELSE Get(metadata, "session_date", "")

ArchiveRecord(mem) ==
  [id |-> mem.id, date |-> DateStr(mem.metadata),
   title |-> Get(mem.metadata, "title", "Untitled")]

RECURSIVE ToArchive(_, _)
\* the records of the memories dated before the cutoff, in collection order
ToArchive(results, cutoff_date) ==
  IF results = <<>> THEN <<>>
  ELSE IF DateStr(Head(results).metadata) /= ""
          /\ OlderThan(DateStr(Head(results).metadata), cutoff_date)
    THEN <<ArchiveRecord(Head(results))>> \o ToArchive(Tail(results), cutoff_date)
  ELSE ToArchive(Tail(results), cutoff_date)

\* timedelta(days=days_threshold)
CutoffDate(t, days_threshold) == t - days_threshold * TicksPerDay

EmptyArchiveResult ==
  ("archived" :> 0) @@ ("message" :> "No memories to archive")

ArchiveResult(to_archive, dry_run, path) ==
  ("found" :> Len(to_archive)) @@
  ("archived" :> IF Falsy(dry_run) THEN Len(to_archive) ELSE 0) @@
  ("dry_run" :> dry_run) @@
  ("archive_path" :> IF Falsy(dry_run) /\ to_archive /= <<>> THEN path ELSE "None") @@
  ("sample" :> FirstN(to_archive, 5))

(***************************************************************************)
(* The positions of a request.  A handler runs from one position to the    *)
(* next one at which a store or file step of its own happens; auto_curate  *)
(* stops between its three steps.                                          *)
(***************************************************************************)
AutoArchiveDays == 180
AutoEnhanceLimit == 20
AutoEnhanceBelow == 50

Finish(o, status, result) ==
  [o EXCEPT !.pc = "done", !.status = status, !.result = result]

Action(dry_run, would, did, n, what) ==
  [verb |-> IF Falsy(dry_run) THEN did ELSE would, n |-> n, what |-> what]

\* the request after deduplicate_memories has returned dedup_result
AfterDedup(o, dedup_result) ==
  IF o.name = "deduplicate"
    THEN Finish(o, 200, dedup_result)
  ELSE IF ~Has(dedup_result, "duplicates_found")
    THEN \* KeyError in auto_curate, caught by its except clause
         Finish(o, 500, ("success" :> FALSE))
  ELSE [o EXCEPT !.pc = "auto_archive",
          !.actions = IF dedup_result["duplicates_found"] > 0
                      THEN Append(o.actions,
                             Action(o.dry_run, "Would remove", "Removed",
                                    dedup_result["duplicates_found"], "duplicates"))
                      ELSE o.actions]

\* deduplicate_memories from its call to its first delete, or to its return
DedupBegin(o, st) ==
  IF st = <<>>
    THEN AfterDedup(o, EmptyDedupResult)
  ELSE IF Falsy(o.dry_run) /\ DuplicatesToRemove(st) /= <<>>
    THEN [o EXCEPT !.pc = "dedup_delete",
            !.duplicates_to_remove = DuplicatesToRemove(st), !.idx = 1,
            !.deleted = <<>>, !.failed = <<>>]
  ELSE AfterDedup([o EXCEPT !.duplicates_to_remove = DuplicatesToRemove(st)],
                  DedupResult(DuplicatesToRemove(st), o.dry_run))

\* the request after archive_old_memories has returned archive_result
AfterArchive(o, archive_result) ==
  IF o.name = "archive"
    THEN Finish(o, 200, archive_result)
  ELSE IF ~Has(archive_result, "found")
    THEN \* KeyError in auto_curate, caught by its except clause
         Finish(o, 500, ("success" :> FALSE))
  ELSE [o EXCEPT !.pc = "auto_enhance",
          !.actions = IF archive_result["found"] > 0
                      THEN Append(o.actions,
                             Action(o.dry_run, "Would archive", "Archived",
                                    archive_result["found"], "old memories"))
                      ELSE o.actions]

\* archive_old_memories from its call to the opening of the snapshot file
\* (mode 'w' truncates it), or to its return when nothing is to be written
ArchiveBegin(o, days_threshold, st, fl, t) ==
  IF st = <<>>
    THEN [op |-> AfterArchive(o, EmptyArchiveResult), files |-> fl]
  ELSE IF Falsy(o.dry_run) /\ ToArchive(st, CutoffDate(t, days_threshold)) /= <<>>
    THEN [op |-> [o EXCEPT !.pc = "archive_dump", !.days = days_threshold,
                    !.cutoff_date = CutoffDate(t, days_threshold),
                    !.to_archive = ToArchive(st, CutoffDate(t, days_threshold)),
                    !.idx = 1, !.deleted = <<>>, !.failed = <<>>,
                    !.path = ArchivePath(t)],
          files |-> (ArchivePath(t) :> <<>>) @@ fl]
  ELSE [op |-> AfterArchive(
                 [o EXCEPT !.days = days_threshold,
                    !.cutoff_date = CutoffDate(t, days_threshold),
                    !.to_archive = ToArchive(st, CutoffDate(t, days_threshold))],
                 ArchiveResult(ToArchive(st, CutoffDate(t, days_threshold)),
                               o.dry_run, ArchivePath(t))),
        files |-> fl]

RECURSIVE EnhanceLowQualityAlways(_, _, _, _)
\* EnhanceLowQuality without the test of dry_run
EnhanceLowQualityAlways(results, st, dry_run, t) ==
  IF results = <<>> THEN [store |-> st, enhanced_count |-> 0]
  ELSE IF QualityScore(Head(results).metadata, ContentEmpty) < AutoEnhanceBelow
    THEN [store |-> EnhanceLowQualityAlways(Tail(results),
                      EnhanceMemory(st, Head(results).id, t).store,
                      dry_run, t).store,
          enhanced_count |-> 1 + EnhanceLowQualityAlways(Tail(results),
                      EnhanceMemory(st, Head(results).id, t).store,
                      dry_run, t).enhanced_count]
  ELSE EnhanceLowQualityAlways(Tail(results), st, dry_run, t)

RECURSIVE EnhanceLowQuality(_, _, _, _)
\* step 3 of auto_curate over the listed records, scored on metadata alone;
\* yields the store and the number of enhance calls made
EnhanceLowQuality(results, st, dry_run, t) ==
  IF results = <<>> THEN [store |-> st, enhanced_count |-> 0]
  ELSE IF QualityScore(Head(results).metadata, ContentEmpty) < AutoEnhanceBelow
          /\ Falsy(dry_run)
    THEN [store |-> EnhanceLowQuality(Tail(results),
                      EnhanceMemory(st, Head(results).id, t).store,
                      dry_run, t).store,
          enhanced_count |-> 1 + EnhanceLowQuality(Tail(results),
                      EnhanceMemory(st, Head(results).id, t).store,
                      dry_run, t).enhanced_count]
  ELSE EnhanceLowQuality(Tail(results), st, dry_run, t)

\* the action log once the enhancement step has counted enhanced_count
EnhanceActions(o, enhanced_count) ==
  IF enhanced_count > 0 \/ (~Falsy(o.dry_run) /\ enhanced_count = 0)
    THEN Append(o.actions,
           Action(o.dry_run, "Would enhance", "Enhanced",
                  enhanced_count, "low-quality memories"))
    ELSE o.actions

(***************************************************************************)
(* POST /api/curator/deduplicate                                           *)
(***************************************************************************)
Deduplicate(dry_run) ==
  /\ ~Busy
  /\ op' = DedupBegin([NewOp("deduplicate") EXCEPT !.dry_run = DryRunArg(dry_run)],
                      store)
  /\ UNCHANGED <<store, files, now, nextUuid, archivedEver, adds, op2>>

\* one turn of the delete loop; a delete that raises is logged and skipped
DedupDelete(ok) ==
  /\ op.pc = "dedup_delete"
  /\ store' = IF ok THEN StoreDelete(store, op.duplicates_to_remove[op.idx])
              ELSE store
  /\ \E o \in {[op EXCEPT !.idx = op.idx + 1,
                  !.deleted = IF ok
                    THEN Append(op.deleted, op.duplicates_to_remove[op.idx])
                    ELSE op.deleted,
                  !.failed = IF ok THEN op.failed
                    ELSE Append(op.failed, op.duplicates_to_remove[op.idx])]} :
       op' = IF op.idx < Len(op.duplicates_to_remove) THEN o
             ELSE AfterDedup(o, DedupResult(op.duplicates_to_remove, op.dry_run))
  /\ UNCHANGED <<files, now, nextUuid, archivedEver, adds, op2>>

\* a second deduplicate_memories(dry_run=False) call, served beside the
\* first: its read of the collection
DeduplicateSecond ==
  /\ op2.pc = "idle"
  /\ op2' = DedupBegin([IdleOp EXCEPT !.name = "deduplicate", !.before = store,
                          !.beforeFiles = files, !.dry_run = "false"],
                       store)
  /\ UNCHANGED <<store, files, now, op, nextUuid, archivedEver, adds>>

\* one turn of the delete loop of the second call
DedupDeleteSecond(ok) ==
  /\ op2.pc = "dedup_delete"
  /\ store' = IF ok THEN StoreDelete(store, op2.duplicates_to_remove[op2.idx])
              ELSE store
  /\ \E o \in {[op2 EXCEPT !.idx = op2.idx + 1,
                  !.deleted = IF ok
                    THEN Append(op2.deleted, op2.duplicates_to_remove[op2.idx])
                    ELSE op2.deleted,
                  !.failed = IF ok THEN op2.failed
                    ELSE Append(op2.failed, op2.duplicates_to_remove[op2.idx])]} :
       op2' = IF op2.idx < Len(op2.duplicates_to_remove) THEN o
              ELSE AfterDedup(o, DedupResult(op2.duplicates_to_remove, op2.dry_run))
  /\ UNCHANGED <<files, now, op, nextUuid, archivedEver, adds>>

(***************************************************************************)
(* POST /api/curator/archive                                               *)
(***************************************************************************)
Thresholds == {90, 180}

Archive(days, dry_run) ==
  /\ ~Busy
  /\ \E next \in {ArchiveBegin([NewOp("archive") EXCEPT
                                  !.dry_run = DryRunArg(dry_run)],
                               days, store, files, now)} :
       /\ op' = next.op
       /\ files' = next.files
  /\ UNCHANGED <<store, now, nextUuid, archivedEver, adds, op2>>

\* ArchiveDump with the json.dump left out: the deletes start on an empty file
ArchiveDumpNothing ==
  /\ op.pc = "archive_dump"
  /\ op' = [op EXCEPT !.pc = "archive_delete"]
  /\ UNCHANGED <<store, files, now, nextUuid, archivedEver, adds, op2>>

\* json.dump(to_archive, f) into the file opened for writing
ArchiveDump ==
  /\ op.pc = "archive_dump"
  /\ files' = (op.path :> op.to_archive) @@ files
  /\ op' = [op EXCEPT !.pc = "archive_delete"]
  /\ UNCHANGED <<store, now, nextUuid, archivedEver, adds, op2>>

\* ArchiveDelete returning after its first turn
ArchiveDeleteOnce(ok) ==
  /\ op.pc = "archive_delete"
  /\ store' = IF ok THEN StoreDelete(store, op.to_archive[op.idx].id) ELSE store
  /\ archivedEver' = IF ok THEN archivedEver \cup {op.to_archive[op.idx]}
                     ELSE archivedEver
  /\ op' = AfterArchive(
             [op EXCEPT !.idx = op.idx + 1,
                !.deleted = IF ok
                  THEN Append(op.deleted, op.to_archive[op.idx].id)
                  ELSE op.deleted,
                !.failed = IF ok THEN op.failed
                  ELSE Append(op.failed, op.to_archive[op.idx].id)],
             ArchiveResult(op.to_archive, op.dry_run, op.path))
  /\ UNCHANGED <<files, now, nextUuid, adds, op2>>

\* one turn of the delete loop; a delete that raises is logged and skipped
ArchiveDelete(ok) ==
  /\ op.pc = "archive_delete"
  /\ store' = IF ok THEN StoreDelete(store, op.to_archive[op.idx].id) ELSE store
  /\ archivedEver' = IF ok THEN archivedEver \cup {op.to_archive[op.idx]}
                     ELSE archivedEver
  /\ \E o \in {[op EXCEPT !.idx = op.idx + 1,
                  !.deleted = IF ok
                    THEN Append(op.deleted, op.to_archive[op.idx].id)
                    ELSE op.deleted,
                  !.failed = IF ok THEN op.failed
                    ELSE Append(op.failed, op.to_archive[op.idx].id)]} :
       op' = IF op.idx < Len(op.to_archive) THEN o
             ELSE AfterArchive(o, ArchiveResult(op.to_archive, op.dry_run, op.path))
  /\ UNCHANGED <<files, now, nextUuid, adds, op2>>

(***************************************************************************)
(* POST /api/curator/auto-curate                                           *)
(***************************************************************************)
\* the request and step 1, the call of deduplicate_memories
AutoCurate(dry_run) ==
  /\ ~Busy
  /\ op' = DedupBegin([NewOp("auto_curate") EXCEPT !.dry_run = DryRunArg(dry_run)],
                      store)
  /\ UNCHANGED <<store, files, now, nextUuid, archivedEver, adds, op2>>

\* step 2, the call of archive_old_memories(180, dry_run)
AutoArchive ==
  /\ op.pc = "auto_archive"
  /\ \E next \in {ArchiveBegin(op, AutoArchiveDays, store, files, now)} :
       /\ op' = next.op
       /\ files' = next.files
  /\ UNCHANGED <<store, now, nextUuid, archivedEver, adds, op2>>

\* step 3, the enhancement of the low-quality memories, and the return
AutoEnhance ==
  /\ op.pc = "auto_enhance"
  /\ \E enh \in {EnhanceLowQuality(FirstN(store, AutoEnhanceLimit), store,
                                   op.dry_run, now)} :
       /\ store' = enh.store
       /\ op' = Finish([op EXCEPT !.actions = EnhanceActions(op, enh.enhanced_count)],
                       200,
                       ("success" :> TRUE) @@ ("dry_run" :> op.dry_run)
                         @@ ("actions_taken" :> EnhanceActions(op, enh.enhanced_count)))
  /\ UNCHANGED <<files, now, nextUuid, archivedEver, adds, op2>>

(***************************************************************************)
(* POST /api/curator/enhance/<memory_id>                                   *)
(***************************************************************************)
MissingId == "no-such-id"

Enhance(memory_id) ==
  /\ ~Busy
  /\ \E r \in {EnhanceMemory(store, memory_id, now)} :
       /\ store' = r.store
       /\ op' = [NewOp("enhance") EXCEPT !.pc = "done", !.status = 200,
                   !.arg = <<memory_id>>, !.result = r.result]
  /\ UNCHANGED <<files, now, nextUuid, archivedEver, adds, op2>>

(***************************************************************************)
(* MemoryCurator.analyze_memory_health: the duplicates statistic and the   *)
(* recommendations that read it.  The other statistics read the memories   *)
(* and write nothing.                                                      *)
(***************************************************************************)
RECURSIVE ContentHashes(_, _)
\* the keys of content_hashes in insertion order: the hash of every
\* non-empty content, at its first occurrence
ContentHashes(memories, seen) ==
  IF memories = <<>> THEN <<>>
  ELSE LET content == Head(memories).content
       IN  IF NonEmpty(content) /\ Md5(content) \notin seen
             THEN <<Md5(content)>> \o
                  ContentHashes(Tail(memories), seen \cup {Md5(content)})
             ELSE ContentHashes(Tail(memories), seen)

RECURSIVE IdsWithHash(_, _)
\* content_hashes[content_hash]: the ids appended under a hash
IdsWithHash(memories, content_hash) ==
  IF memories = <<>> THEN <<>>
  ELSE IF NonEmpty(Head(memories).content)
          /\ Md5(Head(memories).content) = content_hash
    THEN <<Head(memories).id>> \o IdsWithHash(Tail(memories), content_hash)
  ELSE IdsWithHash(Tail(memories), content_hash)

RECURSIVE GroupsOver(_, _)
\* [ids for ids in content_hashes.values() if len(ids) > 1]
GroupsOver(hashes, memories) ==
  IF hashes = <<>> THEN <<>>
  ELSE IF Len(IdsWithHash(memories, Head(hashes))) > 1
    THEN <<IdsWithHash(memories, Head(hashes))>> \o GroupsOver(Tail(hashes), memories)
  ELSE GroupsOver(Tail(hashes), memories)

ExactDuplicates(memories) == GroupsOver(ContentHashes(memories, {}), memories)

\* content[:500]
Leading(content) ==
  IF ContentLen(content) <= 500 THEN content
  ELSE <<"<first 500 characters of> " \o JoinLines(content)>>

\* cosine similarity of the TF-IDF vectors, in hundredths: 100 for the same
\* text; two different texts of the vocabulary share too few terms to pass
\* the threshold
Similarity(a, b) == IF a = b THEN 100 ELSE 0

SimilarityThreshold == 85

RECURSIVE PairsFrom(_, _, _)
\* for i in range(n): for j in range(i + 1, n), as 1-based pairs
PairsFrom(i, j, n) ==
  IF i >= n THEN <<>>
  ELSE IF j > n THEN PairsFrom(i + 1, i + 2, n)
  ELSE <<(<<i, j>>)>> \o PairsFrom(i, j + 1, n)

RECURSIVE NearOver(_, _, _)
\* the near-duplicate entries: the positions are those of valid_contents,
\* the ids are read from memories at the same positions
NearOver(pairs, memories, valid_contents) ==
  IF pairs = <<>> THEN <<>>
  ELSE LET i == Head(pairs)[1]
           j == Head(pairs)[2]
       IN  IF Similarity(valid_contents[i], valid_contents[j]) > SimilarityThreshold
             THEN <<[memory1 |-> memories[i].id, memory2 |-> memories[j].id,
                     similarity |-> Similarity(valid_contents[i], valid_contents[j])]>>
                  \o NearOver(Tail(pairs), memories, valid_contents)
             ELSE NearOver(Tail(pairs), memories, valid_contents)

NearLimit == 10

\* _find_duplicates: duplicates starts as the empty list and becomes a dict
\* only on the paths that assign one
FindDuplicates(memories) ==
  LET contents == [i \in 1..Len(memories) |-> Leading(memories[i].content)]
      valid_contents == SelectSeq(contents, NonEmpty)
  IN  IF Len(memories) > 1
        THEN IF Len(valid_contents) > 1
               THEN ("exact" :> ExactDuplicates(memories)) @@
                    ("near" :> FirstN(NearOver(PairsFrom(1, 2, Len(valid_contents)),
                                               memories, valid_contents),
                                      NearLimit))
               ELSE <<>>
        ELSE ("exact" :> ExactDuplicates(memories)) @@ ("near" :> <<>>)

StaleDays == 90
StaleLimit == 20

RECURSIVE StaleOver(_, _)
\* the loop of _find_stale_memories: a memory with last_accessed is passed
\* over; otherwise its date is parsed and compared inside try/except
StaleOver(memories, cutoff_date) ==
  IF memories = <<>> THEN <<>>
  ELSE IF ~TruthyStr(Head(memories).metadata, "last_accessed")
          /\ DateStr(Head(memories).metadata) /= ""
          /\ OlderThan(DateStr(Head(memories).metadata), cutoff_date)
    THEN <<ArchiveRecord(Head(memories))>> \o StaleOver(Tail(memories), cutoff_date)
  ELSE StaleOver(Tail(memories), cutoff_date)

\* _find_stale_memories(memories) with the default threshold
FindStaleMemories(memories, t) ==
  FirstN(StaleOver(memories, CutoffDate(t, StaleDays)), StaleLimit)

\* the statistics, or the error result when _generate_recommendations
\* calls .get on a duplicates value that is a list
AnalyzeMemoryHealth(st, t) ==
  IF st = <<>> THEN ("status" :> "empty") @@ ("total_memories" :> 0)
  ELSE IF DOMAIN FindDuplicates(st) = {}
    THEN ("status" :> "error") @@
         ("error" :> "'list' object has no attribute 'get'")
  ELSE ("total_memories" :> Len(st)) @@ ("duplicates" :> FindDuplicates(st))
         @@ ("stale_memories" :> FindStaleMemories(st, t))

Analyze ==
  /\ ~Busy
  /\ op' = [NewOp("analyze") EXCEPT !.pc = "done", !.status = 200,
              !.cutoff_date = CutoffDate(now, StaleDays),
              !.result = AnalyzeMemoryHealth(store, now)]
  /\ UNCHANGED <<store, files, now, nextUuid, archivedEver, adds, op2>>

(***************************************************************************)
(* DELETE /api/memory/<memory_id>                                          *)
(***************************************************************************)
\* DeleteMemory without the existence check: any id is answered 200
DeleteMemoryUnchecked(memory_id, ok) ==
  /\ ~Busy
  /\ IF ok
       THEN /\ store' = StoreDelete(store, memory_id)
            /\ op' = [NewOp("delete_memory") EXCEPT !.pc = "done", !.status = 200,
                        !.arg = <<memory_id>>, !.result = ("success" :> TRUE)]
       ELSE /\ store' = store
            /\ op' = [NewOp("delete_memory") EXCEPT !.pc = "done", !.status = 500,
                        !.arg = <<memory_id>>, !.result = ("success" :> FALSE)]
  /\ UNCHANGED <<files, now, nextUuid, archivedEver, adds, op2>>

\* the existence check, then the delete; a delete that raises is answered 500
DeleteMemory(memory_id, ok) ==
  /\ ~Busy
  /\ IF memory_id \notin StoreIds(store)
       THEN /\ store' = store
            /\ op' = [NewOp("delete_memory") EXCEPT !.pc = "done", !.status = 404,
                        !.arg = <<memory_id>>, !.result = ("success" :> FALSE)]
       ELSE IF ok
         THEN /\ store' = StoreDelete(store, memory_id)
              /\ op' = [NewOp("delete_memory") EXCEPT !.pc = "done",
                          !.status = 200, !.arg = <<memory_id>>,
                          !.result = ("success" :> TRUE)]
         ELSE /\ store' = store
              /\ op' = [NewOp("delete_memory") EXCEPT !.pc = "done",
                          !.status = 500, !.arg = <<memory_id>>,
                          !.result = ("success" :> FALSE)]
  /\ UNCHANGED <<files, now, nextUuid, archivedEver, adds, op2>>

\* the process dies inside a handler; the store and the files stay as they are
Crash ==
  /\ Busy
  /\ op' = [op EXCEPT !.pc = "crashed"]
  /\ UNCHANGED <<store, files, now, nextUuid, archivedEver, adds, op2>>

(***************************************************************************)
(* MemoryCurator.consolidate_memories and POST /api/curator/consolidate    *)
(***************************************************************************)
MaxLines == 7

\* the order of str on the date strings that reach dates.sort()
LexRank ==
  ("2024-01-01" :> 1) @@ ("2024-01-01T00:00:00Z" :> 2) @@ ("2024-10-01" :> 3) @@
  ("2025-02-04" :> 4) @@ ("2025-02-05" :> 5) @@ ("2025-02-06" :> 6) @@
  ("invalid-date" :> 7)

Rank(s) == IF s \in DOMAIN LexRank THEN LexRank[s] ELSE 0

Earliest(dates) ==
  CHOOSE d \in Range(dates) : \A e \in Range(dates) : Rank(d) <= Rank(e)
Latest(dates) ==
  CHOOSE d \in Range(dates) : \A e \in Range(dates) : Rank(e) <= Rank(d)

RECURSIVE SetToSeq(_)
\* list(a_set): the elements in some order
SetToSeq(S) ==
  IF S = {} THEN <<>>
  ELSE LET x == CHOOSE y \in S : TRUE IN <<x>> \o SetToSeq(S \ {x})

\* "## {title} ({date})\n{content}\n"
Section(mem) ==
  <<"## " \o Get(mem.metadata, "title", "Untitled") \o " ("
      \o Get(mem.metadata, "date", "Unknown date") \o ")">>
  \o mem.content \o <<"">>

RECURSIVE CombinedContent(_)
\* "\n---\n".join(combined_content)
CombinedContent(found) ==
  IF found = <<>> THEN ContentEmpty
  ELSE IF Len(found) = 1 THEN Section(Head(found))
  ELSE Section(Head(found)) \o <<"---">> \o CombinedContent(Tail(found))

\* the technologies one memory contributes
TechnologiesOf(metadata) ==
  IF TruthyText(metadata, "technologies")
    THEN LET parsed == JsonLoads(metadata["technologies"])
         IN  IF parsed.ok THEN Range(parsed.items) ELSE {}
    ELSE {}

\* combined_technologies.update(tech) raises TypeError: the parsed value is
\* not iterable
TechnologiesRaise(metadata) ==
  /\ TruthyText(metadata, "technologies")
  /\ JsonLoads(metadata["technologies"]).ok
  /\ ~JsonLoads(metadata["technologies"]).iterable

CombinedTechnologies(found) ==
  UNION {TechnologiesOf(found[i].metadata) : i \in 1..Len(found)}

RECURSIVE CollectDates(_)
CollectDates(found) ==
  IF found = <<>> THEN <<>>
  ELSE LET date == Get(Head(found).metadata, "date", "Unknown date")
       IN  (IF date /= "Unknown date" THEN <<date>> ELSE <<>>)
             \o CollectDates(Tail(found))

DateRange(dates, t) ==
  IF dates = <<>> THEN Today(t)
  ELSE IF Len(dates) > 1 THEN Earliest(dates) \o " to " \o Latest(dates)
  ELSE dates[1]

\* "consolidated_" + md5(consolidated_content)[:8]
ConsolidatedId(content) == "consolidated_" \o Md5(content)

ConsolidatedTitle(memory_ids, new_title) ==
  IF new_title \in {"omitted", ""}
    THEN "Consolidated Memory (" \o ToString(Len(memory_ids)) \o " memories)"
    ELSE new_title

ConsolidatedMetadata(memory_ids, new_title, found, t) ==
  ("title" :> ConsolidatedTitle(memory_ids, new_title)) @@
  ("date" :> DateRange(CollectDates(found), t)) @@
  ("source" :> "consolidation") @@
  ("technologies" :> JsonDumps(SetToSeq(CombinedTechnologies(found)))) @@
  ("complexity" :> "high") @@
  ("original_count" :> Len(memory_ids)) @@
  ("consolidated_from" :> JsonDumps(memory_ids)) @@
  ("consolidated_at" :> t)

\* "if not results['ids']": the requested ids resolve to no record
\* NothingFound with the test of the fetched ids left out
NothingFoundNever(found) == FALSE

\* if not results['ids']
NothingFound(found) == found = <<>>

\* WriteConsolidated with the deletion of the originals switched on
WriteConsolidatedReplacing(st, found, consolidated_id, content, metadata) ==
  StoreAdd(Filter(st, StoreIds(st) \ StoreIds(found)),
           consolidated_id, content, metadata)

\* the collection after the write: the consolidated memory is added and the
\* originals stay (their deletion is commented out in the source)
WriteConsolidated(st, found, consolidated_id, content, metadata) ==
  StoreAdd(st, consolidated_id, content, metadata)

\* ConsolidateMemories writing with upsert: a consolidated id that exists is
\* written over and the call succeeds
ConsolidateMemoriesUpserting(st, memory_ids, new_title, t) ==
  LET found == Filter(st, Range(memory_ids))
  IN  IF NothingFound(found)
        THEN [store |-> st,
              result |-> ("success" :> FALSE)
                           @@ ("error" :> "No memories found with provided IDs")]
        ELSE IF \E i \in 1..Len(found) : TechnologiesRaise(found[i].metadata)
          THEN \* caught by the except clause of consolidate_memories
               [store |-> st,
                result |-> ("success" :> FALSE)
                             @@ ("error" :> "'NoneType' object is not iterable")]
        ELSE LET content == CombinedContent(found)
                 consolidated_id == ConsolidatedId(content)
             IN  IF consolidated_id \in StoreIds(st)
                   THEN [store |-> WriteConsolidated(
                                     StoreDelete(st, consolidated_id), found,
                                     consolidated_id, content,
                                     ConsolidatedMetadata(memory_ids, new_title,
                                                          found, t)),
                         result |-> ("success" :> TRUE)
                              @@ ("consolidated_id" :> consolidated_id)
                              @@ ("original_count" :> Len(memory_ids))
                              @@ ("new_title" :>
                                    ConsolidatedTitle(memory_ids, new_title))]
                   ELSE [store |-> WriteConsolidated(st, found, consolidated_id,
                                     content,
                                     ConsolidatedMetadata(memory_ids, new_title,
                                                          found, t)),
                         result |-> ("success" :> TRUE)
                              @@ ("consolidated_id" :> consolidated_id)
                              @@ ("original_count" :> Len(memory_ids))
                              @@ ("new_title" :>
                                    ConsolidatedTitle(memory_ids, new_title))]

\* the store and the result after consolidate_memories(memory_ids, new_title)
ConsolidateMemories(st, memory_ids, new_title, t) ==
  LET found == Filter(st, Range(memory_ids))
  IN  IF NothingFound(found)
        THEN [store |-> st,
              result |-> ("success" :> FALSE)
                           @@ ("error" :> "No memories found with provided IDs")]
        ELSE IF \E i \in 1..Len(found) : TechnologiesRaise(found[i].metadata)
          THEN \* caught by the except clause of consolidate_memories
               [store |-> st,
                result |-> ("success" :> FALSE)
                             @@ ("error" :> "'NoneType' object is not iterable")]
        ELSE LET content == CombinedContent(found)
                 consolidated_id == ConsolidatedId(content)
             IN  IF consolidated_id \in StoreIds(st)
                   THEN \* the add raises; caught by the except clause
                        [store |-> st,
                         result |-> ("success" :> FALSE)
                                      @@ ("error" :> "add failed")]
                   ELSE [store |-> WriteConsolidated(st, found, consolidated_id,
                                     content,
                                     ConsolidatedMetadata(memory_ids, new_title,
                                                          found, t)),
                         result |-> ("success" :> TRUE)
                              @@ ("consolidated_id" :> consolidated_id)
                              @@ ("original_count" :> Len(memory_ids))
                              @@ ("new_title" :>
                                    ConsolidatedTitle(memory_ids, new_title))]

\* the memory_ids lists the model requests for a store
ConsolidateIds(st) ==
  LET C == StoreIds(st) \cup {MissingId}
  IN  {<<a>> : a \in C}
        \cup {<<st[i].id, st[j].id>> : i \in 1..Len(st), j \in 1..Len(st)} 
        \cup {<<a, MissingId>> : a \in StoreIds(st)}

ConsolidateTitles == {"omitted", "Merged notes"}

Consolidate(memory_ids, new_title) ==
  /\ ~Busy
  /\ \E r \in {ConsolidateMemories(store, memory_ids, new_title, now)} :
       /\ \A i \in 1..Len(r.store) : Len(r.store[i].content) <= MaxLines
       /\ adds + (Len(r.store) - Len(store)) <= MaxAdds
       /\ adds' = adds + (Len(r.store) - Len(store))
       /\ store' = r.store
       /\ op' = [NewOp("consolidate") EXCEPT !.pc = "done", !.status = 200,
                   !.arg = memory_ids, !.result = r.result]
  /\ UNCHANGED <<files, now, nextUuid, archivedEver, op2>>

(***************************************************************************)
(* The service.                                                            *)
(***************************************************************************)
Next ==
  \/ \E data \in AddBodies : AddMemory(data)
  \/ \E dry_run \in JsonValues : Deduplicate(dry_run)
  \/ \E ok \in BOOLEAN : DedupDelete(ok)
  \/ \E days \in Thresholds, dry_run \in JsonValues : Archive(days, dry_run)
  \/ ArchiveDump
  \/ \E ok \in BOOLEAN : ArchiveDelete(ok)
  \/ \E dry_run \in JsonValues : AutoCurate(dry_run)
  \/ AutoArchive
  \/ AutoEnhance
  \/ \E memory_id \in StoreIds(store) \cup {MissingId} : Enhance(memory_id)
  \/ \E memory_ids \in ConsolidateIds(store), new_title \in ConsolidateTitles :
       Consolidate(memory_ids, new_title)
  \/ \E memory_id \in StoreIds(store) \cup {MissingId}, ok \in BOOLEAN :
       DeleteMemory(memory_id, ok)
  \/ Analyze
  \/ DeduplicateSecond
  \/ \E ok \in BOOLEAN : DedupDeleteSecond(ok)
  \/ Tick
  \/ Crash

Spec == Init /\ [][Next]_vars

(***************************************************************************)
(* The service restricted to the requests of one feature.                  *)
(***************************************************************************)
NextDedup ==
  \/ \E data \in AddBodies : AddMemory(data)
  \/ \E dry_run \in JsonValues : Deduplicate(dry_run)
  \/ \E ok \in BOOLEAN : DedupDelete(ok)
  \/ Crash

SpecDedup == Init /\ [][NextDedup]_vars

\* the archive route on one day
NextArchive ==
  \/ \E data \in AddBodies : AddMemory(data)
  \/ \E days \in Thresholds, dry_run \in JsonValues : Archive(days, dry_run)
  \/ ArchiveDump
  \/ \E ok \in BOOLEAN : ArchiveDelete(ok)
  \/ Crash

SpecArchive == Init /\ [][NextArchive]_vars

\* the archive route with the clock advancing between requests
NextArchiveDays ==
  \/ \E data \in AddBodies : AddMemory(data)
  \/ \E days \in Thresholds, dry_run \in JsonValues : Archive(days, dry_run)
  \/ ArchiveDump
  \/ \E ok \in BOOLEAN : ArchiveDelete(ok)
  \/ Tick
  \/ Crash

SpecArchiveDays == Init /\ [][NextArchiveDays]_vars

NextCurate ==
  \/ \E data \in AddBodies : AddMemory(data)
  \/ \E dry_run \in JsonValues : Deduplicate(dry_run)
  \/ \E ok \in BOOLEAN : DedupDelete(ok)
  \/ \E days \in Thresholds, dry_run \in JsonValues : Archive(days, dry_run)
  \/ ArchiveDump
  \/ \E ok \in BOOLEAN : ArchiveDelete(ok)
  \/ \E dry_run \in JsonValues : AutoCurate(dry_run)
  \/ AutoArchive
  \/ AutoEnhance

SpecCurate == Init /\ [][NextCurate]_vars

NextConsolidate ==
  \/ \E data \in AddBodies : AddMemory(data)
  \/ \E memory_id \in StoreIds(store) \cup {MissingId} : Enhance(memory_id)
  \/ \E memory_ids \in ConsolidateIds(store), new_title \in ConsolidateTitles :
       Consolidate(memory_ids, new_title)

SpecConsolidate == Init /\ [][NextConsolidate]_vars

\* the consolidate route over memories that carry technologies
NextTech ==
  \/ \E data \in TechBodies : AddMemory(data)
  \/ \E memory_ids \in ConsolidateIds(store), new_title \in ConsolidateTitles :
       Consolidate(memory_ids, new_title)

SpecTech == Init /\ [][NextTech]_vars

\* every operation that writes the collection, executing
NextIds ==
  \/ \E data \in IdBodies : AddMemory(data)
  \/ Deduplicate("false")
  \/ \E ok \in BOOLEAN : DedupDelete(ok)
  \/ Archive(AutoArchiveDays, "false")
  \/ ArchiveDump
  \/ \E ok \in BOOLEAN : ArchiveDelete(ok)
  \/ \E memory_id \in StoreIds(store) \cup {MissingId} : Enhance(memory_id)
  \/ \E memory_ids \in ConsolidateIds(store), new_title \in ConsolidateTitles :
       Consolidate(memory_ids, new_title)
  \/ \E memory_id \in StoreIds(store) \cup {MissingId}, ok \in BOOLEAN :
       DeleteMemory(memory_id, ok)
  \/ Analyze
  \/ AutoCurate("false")
  \/ AutoArchive
  \/ AutoEnhance

SpecIds == Init /\ [][NextIds]_vars

(***************************************************************************)
(* The enhance route over a collection that already holds one memory,      *)
(* written by any indexer: each of title, technologies and complexity is   *)
(* missing, empty, a placeholder or set.                                   *)
(***************************************************************************)
EmptyText == [kind |-> "empty", items |-> <<>>]

TitleChoices ==
  {<< >>, "title" :> "", "title" :> "Untitled", "title" :> "Bug A"}
TechnologiesChoices ==
  {<< >>, "technologies" :> EmptyText, "technologies" :> JsonDumps(<<>>),
   "technologies" :> JsonDumps(<<"sql">>)}
ComplexityChoices ==
  {<< >>, "complexity" :> "", "complexity" :> "medium"}

ContentShort == <<"short">>
ContentCode == <<"example of the fix", CodeFence, "x = 1", CodeFence>>
ContentLong == <<"<prose of 600 characters>">>
ContentChoices ==
  {ContentFlask, ContentA, ContentShort, ContentEmpty, ContentCode, ContentLong}

IndexedId == "m1"

InitEnhance ==
  /\ \E title \in TitleChoices, technologies \in TechnologiesChoices,
        complexity \in ComplexityChoices, content \in ContentChoices :
       store = <<[id |-> IndexedId, content |-> content,
                  metadata |-> title @@ technologies @@ complexity
                                 @@ ("source" :> "summary")]>>
  /\ files = << >>
  /\ now = StartNow
  /\ op = IdleOp
  /\ op2 = IdleOp
  /\ nextUuid = 1
  /\ archivedEver = {}
  /\ adds = 0

NextEnhance ==
  \/ \E memory_id \in StoreIds(store) \cup {MissingId} : Enhance(memory_id)
  \/ Tick

SpecEnhance == InitEnhance /\ [][NextEnhance]_vars

(***************************************************************************)
(* _calculate_memory_quality_score over any one memory: the metadata keys  *)
(* it reads are absent, empty or set, and the content is empty, short, of  *)
(* 300 or 600 characters, with or without a code block.                    *)
(***************************************************************************)
DateChoices ==
  {<< >>, ("date" :> ""), ("date" :> "2024-01-01"),
   ("session_date" :> "2024-01-01")}
SourceChoices == {<< >>, ("source" :> ""), ("source" :> "summary")}
ContentMid == <<"<prose of 300 characters>">>
ScoredContents ==
  {ContentEmpty, ContentShort, ContentCode, ContentMid, ContentLong,
   ContentLong \o ContentCode}

InitScore ==
  /\ \E title \in TitleChoices, technologies \in TechnologiesChoices,
        complexity \in ComplexityChoices, date \in DateChoices,
        source \in SourceChoices, content \in ScoredContents :
       store = <<[id |-> IndexedId, content |-> content,
                  metadata |-> title @@ technologies @@ complexity
                                 @@ date @@ source]>>
  /\ files = << >>
  /\ now = StartNow
  /\ op = IdleOp
  /\ op2 = IdleOp
  /\ nextUuid = 1
  /\ archivedEver = {}
  /\ adds = 0

\* one call of _calculate_memory_quality_score on a stored memory
CalculateQuality(memory_id) ==
  /\ ~Busy
  /\ op' = [NewOp("quality_score") EXCEPT !.pc = "done", !.arg = <<memory_id>>,
              !.result = ("quality_score" :>
                            QualityScore(Lookup(store, memory_id).metadata,
                                         Lookup(store, memory_id).content))]
  /\ UNCHANGED <<store, files, now, nextUuid, archivedEver, adds, op2>>

NextScore == \E memory_id \in StoreIds(store) : CalculateQuality(memory_id)

SpecScore == InitScore /\ [][NextScore]_vars

(***************************************************************************)
(* The health analysis over any collection of up to MaxMemories memories   *)
(* whose contents are drawn from two texts and the empty text.             *)
(***************************************************************************)
MaxMemories == 4
AnalyzedContents == {ContentA, ContentC, ContentEmpty}

InitAnalyze ==
  /\ \E n \in 0..MaxMemories :
       \E contents \in [1..n -> AnalyzedContents] :
         store = [i \in 1..n |->
                    [id |-> "m" \o ToString(i), content |-> contents[i],
                     metadata |-> ("source" :> "summary")]]
  /\ files = << >>
  /\ now = StartNow
  /\ op = IdleOp
  /\ op2 = IdleOp
  /\ nextUuid = 1
  /\ archivedEver = {}
  /\ adds = 0

NextAnalyze == Analyze

SpecAnalyze == InitAnalyze /\ [][NextAnalyze]_vars

\* bodies with an old date, a date with the UTC designator, a date that
\* does not parse, an old date beside a last_accessed stamp, and no date
StaleBodies ==
  { ("content" :> ContentA) @@ ("date" :> "2024-01-01") @@ ("id" :> "s1"),
    ("content" :> ContentC) @@ ("date" :> "2024-01-01T00:00:00Z") @@ ("id" :> "s2"),
    ("content" :> ContentA) @@ ("date" :> "invalid-date") @@ ("id" :> "s3"),
    ("content" :> ContentC) @@ ("date" :> "2024-10-01") @@ ("id" :> "s4")
      @@ ("metadata" :> ("last_accessed" :> "2025-02-04")),
    ("content" :> ContentFlask) }

\* the health analysis over dated memories, the clock advancing
NextStale ==
  \/ \E data \in StaleBodies : AddMemory(data)
  \/ Analyze
  \/ Tick

SpecStale == Init /\ [][NextStale]_vars

(***************************************************************************)
(* Two deduplicate_memories(dry_run=False) calls on one collection of up   *)
(* to MaxMemories memories: each reads the collection once, at any time,   *)
(* and then deletes its marked ids one at a time, in any interleaving.     *)
(***************************************************************************)
NextRace ==
  \/ op.pc = "idle" /\ Deduplicate("false")
  \/ \E ok \in BOOLEAN : DedupDelete(ok)
  \/ DeduplicateSecond
  \/ \E ok \in BOOLEAN : DedupDeleteSecond(ok)

SpecRace == InitAnalyze /\ [][NextRace]_vars

(***************************************************************************)
(* The auto-curate route over memories of different quality: two with the  *)
(* placeholder title, one of them holding a code block, and two with the   *)
(* same content, one of them old.                                          *)
(***************************************************************************)
QualityBodies ==
  { ("content" :> ContentCode) @@ ("title" :> "Untitled") @@ ("id" :> "q1"),
    ("content" :> ContentC) @@ ("title" :> "Untitled") @@ ("id" :> "q2"),
    ("content" :> ContentA) @@ ("title" :> "Bug A") @@ ("date" :> "2024-01-01")
      @@ ("id" :> "q3"),
    ("content" :> ContentA) }

NextQuality ==
  \/ \E data \in QualityBodies : AddMemory(data)
  \/ \E dry_run \in {"true", "false"} : AutoCurate(dry_run)
  \/ \E ok \in BOOLEAN : DedupDelete(ok)
  \/ AutoArchive
  \/ ArchiveDump
  \/ \E ok \in BOOLEAN : ArchiveDelete(ok)
  \/ AutoEnhance

SpecQuality == Init /\ [][NextQuality]_vars


(***************************************************************************)
(* Properties.  A finished request keeps, in op, the collection and the    *)
(* files it started from (before, beforeFiles), its arguments and result.  *)
(***************************************************************************)
Finished(name) == op.name = name /\ op.pc = "done"

Contents(st) == {st[i].content : i \in 1..Len(st)}

\* the number of memories that have an earlier memory with the same content
DuplicateCount(st) == Len(st) - Cardinality(Contents(st))

\* the first memory of a collection with a given content
FirstWith(st, content) ==
  st[CHOOSE i \in 1..Len(st) :
       /\ st[i].content = content
       /\ \A j \in 1..(i - 1) : st[j].content /= content]

\* C1 as stated: deduplicate_memories(dry_run=true) leaves the ids, contents
\* and metadata of the store as they were, and its result carries
\* duplicates_found, the number of memories a real run would remove, for
\* every store.
C1_AsStated ==
  (Finished("deduplicate") /\ op.dry_run = "true") =>
    /\ store = op.before
    /\ Has(op.result, "duplicates_found")
    /\ op.result["duplicates_found"] = DuplicateCount(op.before)

\* The part of C1 the code keeps: deduplicate_memories(dry_run=true) never
\* mutates the store nor the archive files; on a non-empty store
\* duplicates_found is the number of memories a real run would remove, and
\* removed is 0; on an empty store the result carries removed = 0 and no
\* duplicates_found.
DryRunDedupKeepsStore ==
  (Finished("deduplicate") /\ op.dry_run = "true") =>
    /\ store = op.before
    /\ files = op.beforeFiles
    /\ op.result["removed"] = 0
    /\ IF op.before = <<>>
         THEN ~Has(op.result, "duplicates_found")
         ELSE /\ Has(op.result, "duplicates_found")
              /\ op.result["duplicates_found"] = DuplicateCount(op.before)

\* C2: deduplicate_memories(dry_run=false) reduces the store size by exactly
\* the count it reports: count() before minus count() after equals removed,
\* and duplicates_found.
C2_RemovedIsSizeReduction ==
  (Finished("deduplicate") /\ op.dry_run = "false") =>
    /\ Count(op.before) - Count(store) = op.result["removed"]
    /\ Has(op.result, "duplicates_found") =>
         Count(op.before) - Count(store) = op.result["duplicates_found"]

\* C3: after deduplicate_memories(dry_run=false) in which every delete
\* succeeded, each content present before is held by exactly one memory, the
\* first-seen one, unchanged, and nothing else is in the store; so every
\* memory with a unique content is still there as it was.
C3_KeepsFirstSeen ==
  (Finished("deduplicate") /\ op.dry_run = "false" /\ op.failed = <<>>) =>
    /\ \A c \in Contents(op.before) :
         /\ Cardinality({i \in 1..Len(store) : store[i].content = c}) = 1
         /\ FirstWith(op.before, c) \in Range(store)
    /\ Range(store) \subseteq Range(op.before)

\* a run that removed a duplicate and kept a memory of another content
C3_Witness ==
  /\ Finished("deduplicate")
  /\ op.dry_run = "false"
  /\ op.failed = <<>>
  /\ Len(op.deleted) >= 1
  /\ Cardinality(Contents(store)) >= 2


\* the {id, date, title} record of a memory, date being date, else
\* session_date, and title defaulting to Untitled
Snapshot(mem) ==
  [id |-> mem.id,
   date |-> IF Has(mem.metadata, "date") /\ mem.metadata["date"] /= ""
              THEN mem.metadata["date"]
              ELSE Get(mem.metadata, "session_date", ""),
   title |-> Get(mem.metadata, "title", "Untitled")]

\* the records a file holds
Records(path) == IF Has(files, path) THEN Range(files[path]) ELSE {}

\* C4: in a run of archive_old_memories(dry_run=false) the snapshot is
\* written before any delete: at every point of the run, a crash at any
\* point included, every memory the run has deleted from the store has its
\* {id, date, title} record in the snapshot file of the run.
C4_SnapshotBeforeDelete ==
  (op.name = "archive") =>
    \A m \in Range(op.before) :
      m.id \notin StoreIds(store) => Snapshot(m) \in Records(op.path)

\* a run that died inside its delete loop after its first delete
C4_Witness ==
  /\ op.name = "archive"
  /\ op.pc = "crashed"
  /\ Len(op.deleted) = 1
  /\ Len(op.to_archive) = 2
  /\ Cardinality(Records(op.path)) = 2

\* the memories dated more than the threshold before the request
OlderIds(st, cutoff) ==
  {st[i].id : i \in {j \in 1..Len(st) :
     /\ ParseDate(Snapshot(st[j]).date).ok
     /\ ParseDate(Snapshot(st[j]).date).tick < cutoff}}

\* C5: archive_old_memories includes a memory in its result if and only if
\* the date of the memory (date, else session_date) parses and lies more than
\* the threshold before now; a memory without a date or with a date that
\* does not parse is never included, and the call does not raise.
C5_IncludedIffOlder ==
  (Finished("archive") /\ op.before /= <<>>) =>
    /\ op.status = 200
    /\ {op.to_archive[i].id : i \in 1..Len(op.to_archive)}
         = OlderIds(op.before, op.cutoff_date)

\* C6: after any sequence of archive_old_memories(dry_run=false) runs, every
\* memory an archival run ever deleted still has its {id, date, title}
\* record in some snapshot file, two runs on the same day included.  Stated
\* at the return of a run whose deletes all succeeded.
C6_EveryArchivedRecordKept ==
  (Finished("archive") /\ op.dry_run = "false" /\ op.failed = <<>>) =>
    \A r \in archivedEver : \E path \in DOMAIN files : r \in Records(path)

\* C7: archive_old_memories(dry_run=false) with every delete succeeding
\* removes from the store exactly the memories it selected as older than the
\* threshold, the snapshot of the run holds exactly the {id, date, title}
\* records of those memories, and every other memory stays as it was.
C7_ArchiveRemovesSelected ==
  (Finished("archive") /\ op.dry_run = "false" /\ op.failed = <<>>) =>
    LET selected == {op.to_archive[i].id : i \in 1..Len(op.to_archive)}
    IN  /\ selected \subseteq StoreIds(op.before)
        /\ store = Filter(op.before, StoreIds(op.before) \ selected)
        /\ op.result["archived"] = Cardinality(selected)
        /\ IF selected = {} THEN files = op.beforeFiles
           ELSE /\ Records(op.path)
                     = {Snapshot(m) : m \in Range(Filter(op.before, selected))}
                /\ Len(files[op.path]) = Cardinality(selected)

\* a run that archived one memory of three and kept the other two
C7_Witness ==
  /\ Finished("archive")
  /\ op.dry_run = "false"
  /\ op.failed = <<>>
  /\ Len(op.before) = 3
  /\ Len(op.deleted) = 1
  /\ Len(store) = 2
  /\ Cardinality(Records(op.path)) = 1

\* C8: dry-run is the default of deduplicate, archive and auto-curate: a
\* request that leaves dry_run out, or passes true, null or anything but the
\* boolean false, leaves the store unchanged and writes no snapshot.
C8_OnlyFalseExecutes ==
  (op.name \in {"deduplicate", "archive", "auto_curate"}
     /\ op.pc = "done" /\ op.dry_run /= "false") =>
    /\ store = op.before
    /\ files = op.beforeFiles

\* C9: consolidate_memories is additive: a successful call adds exactly one
\* memory, under the id it returns, and deletes or alters no existing one, so
\* count() grows by exactly 1.
C9_ConsolidateAdditive ==
  (Finished("consolidate") /\ op.result["success"]) =>
    /\ Count(store) = Count(op.before) + 1
    /\ SubSeq(store, 1, Len(op.before)) = op.before
    /\ store[Len(store)].id = op.result["consolidated_id"]
    /\ op.result["consolidated_id"] \notin StoreIds(op.before)

\* a successful consolidation of two stored memories
C9_Witness ==
  /\ Finished("consolidate")
  /\ op.result["success"]
  /\ Len(op.arg) = 2
  /\ op.arg[1] /= op.arg[2]
  /\ Range(op.arg) \subseteq StoreIds(op.before)

\* C10: when no requested id is in the store, consolidate_memories, and
\* when its id is absent, enhance_memory_quality, return a not-found result
\* with success = false, raise nothing to the caller, and leave the store
\* unchanged.
C10_NotFoundLeavesStore ==
  /\ (Finished("consolidate") /\ Range(op.arg) \cap StoreIds(op.before) = {}) =>
       /\ op.result = ("success" :> FALSE)
                        @@ ("error" :> "No memories found with provided IDs")
       /\ op.status = 200
       /\ store = op.before
  /\ (Finished("enhance") /\ Range(op.arg) \cap StoreIds(op.before) = {}) =>
       /\ op.result = ("success" :> FALSE) @@ ("error" :> "Memory not found")
       /\ op.status = 200
       /\ store = op.before

\* a consolidation of an absent id against a store that holds two memories
C10_Witness ==
  /\ Finished("consolidate")
  /\ op.arg = <<MissingId>>
  /\ Len(op.before) = 2
  /\ ~op.result["success"]


\* the records a consolidate request found
Found == Filter(op.before, Range(op.arg))

\* the technologies list of a memory: the list its metadata text holds, and
\* nothing when the key is missing or the text is no list
TechList(mem) ==
  IF Has(mem.metadata, "technologies")
       /\ mem.metadata["technologies"].kind = "json_array"
    THEN Range(mem.metadata["technologies"].items)
    ELSE {}

\* the '## title (date)' line of a memory
Header(mem) ==
  "## " \o Get(mem.metadata, "title", "Untitled") \o " ("
    \o Get(mem.metadata, "date", "Unknown date") \o ")"

\* a store no consolidation has written to
NoConsolidated(st) ==
  \A i \in 1..Len(st) : Get(st[i].metadata, "source", "") /= "consolidation"

\* the consolidated memory is written with a header line per found memory
\* and the union of their technologies lists
ConsolidatedAsExpected ==
  /\ op.result["success"]
  /\ Len(store) = Len(op.before) + 1
  /\ LET new == store[Len(store)]
     IN  /\ \A m \in Range(Found) : Header(m) \in Range(new.content)
         /\ Cardinality({i \in 1..Len(new.content) :
                           new.content[i] \in {Header(m) : m \in Range(Found)}})
              = Len(Found)
         /\ new.metadata["technologies"].kind = "json_array"
         /\ Range(new.metadata["technologies"].items)
              = UNION {TechList(m) : m \in Range(Found)}
         /\ Len(new.metadata["technologies"].items)
              = Cardinality(UNION {TechList(m) : m \in Range(Found)})

\* C11: for every set of memories consolidate_memories finds, the new memory
\* has one '## title (date)' header per found memory and its technologies
\* are exactly the union of the technologies lists of the found memories; a
\* missing or malformed technologies value counts as empty and never makes
\* the call fail.
C11_HeadersAndTechnologyUnion ==
  (Finished("consolidate") /\ Found /= <<>> /\ NoConsolidated(op.before)) =>
    ConsolidatedAsExpected

\* The part of C11 the code keeps: when the technologies of every found
\* memory is the text of a list, the headers and the union are as stated.
ListTechnologiesConsolidate ==
  (Finished("consolidate") /\ Found /= <<>> /\ NoConsolidated(op.before)
     /\ \A m \in Range(Found) : m.metadata["technologies"].kind = "json_array") =>
    ConsolidatedAsExpected

\* two memories with overlapping technologies lists were consolidated
ListTechnologiesWitness ==
  /\ Finished("consolidate")
  /\ op.result["success"]
  /\ Len(Found) = 2
  /\ Len(store[Len(store)].metadata["technologies"].items) = 3


\* the memory an enhance request named, before and after the call
EnhancedBefore == Lookup(op.before, op.arg[1])
EnhancedAfter == Lookup(store, op.arg[1])

EnhanceSucceeded == Finished("enhance") /\ op.result["success"]

\* a value enhance_memory_quality treats as present: a title that is neither
\* empty nor the placeholder, a non-empty technologies text, a non-empty
\* complexity, and any value of any other key
Present(metadata, k) ==
  /\ Has(metadata, k)
  /\ k = "title" => metadata[k] \notin {"", "Untitled"}
  /\ k = "technologies" => metadata[k] /= EmptyText
  /\ k = "complexity" => metadata[k] /= ""

EnhancedFields == {"title", "technologies", "complexity"}

\* the *_added flag of a field in the result of the request
AddedFlag(k) ==
  IF k = "title" THEN op.result["enhancements"].title_added
  ELSE IF k = "technologies" THEN op.result["enhancements"].technologies_added
  ELSE op.result["enhancements"].complexity_added

\* C13: enhance_memory_quality is idempotent on populated fields: a call on
\* an id an earlier call has enhanced (its metadata carries enhanced_at)
\* changes none of title, technologies and complexity, and reports none of
\* them as added.
C13_SecondEnhanceChangesNothing ==
  (EnhanceSucceeded /\ Has(EnhancedBefore.metadata, "enhanced_at")) =>
    \A k \in EnhancedFields :
      /\ Has(EnhancedAfter.metadata, k) <=> Has(EnhancedBefore.metadata, k)
      /\ Has(EnhancedBefore.metadata, k) =>
           EnhancedAfter.metadata[k] = EnhancedBefore.metadata[k]
      /\ ~AddedFlag(k)

\* a second call on a memory whose title, technologies and complexity the
\* first call derived from the content
C13_Witness ==
  /\ EnhanceSucceeded
  /\ Has(EnhancedBefore.metadata, "enhanced_at")
  /\ EnhancedBefore.content = ContentFlask
  /\ Get(EnhancedBefore.metadata, "title", "") = ContentFlask[1]
  /\ Get(EnhancedBefore.metadata, "technologies", EmptyText)
       = JsonDumps(<<"python", "flask">>)
  /\ Get(EnhancedBefore.metadata, "complexity", "") = "low"

\* C14: the enhancements result reports which fields were actually added:
\* for each of title, technologies and complexity the flag is true if and
\* only if the call wrote a value for the field that was not there before,
\* a title that replaces the Untitled placeholder or an empty value included.
C14_FlagsReportWrites ==
  EnhanceSucceeded =>
    \A k \in EnhancedFields :
      AddedFlag(k) <=>
        /\ Has(EnhancedAfter.metadata, k)
        /\ \/ ~Has(EnhancedBefore.metadata, k)
           \/ EnhancedAfter.metadata[k] /= EnhancedBefore.metadata[k]

\* The part of C14 the code keeps: a flag is true exactly when the key was
\* missing from the metadata and the call wrote it.
FlagsReportNewKeys ==
  EnhanceSucceeded =>
    \A k \in EnhancedFields :
      AddedFlag(k) <=>
        (Has(EnhancedAfter.metadata, k) /\ ~Has(EnhancedBefore.metadata, k))


\* C15: the id of a memory is unique in the store at all times, whatever
\* sequence of add_memory, consolidate, enhance, deduplicate, archive and
\* delete requests ran; an add under an id that exists is rejected with an
\* error and the existing record is not replaced.
C15_IdsUnique ==
  /\ \A i, j \in 1..Len(store) : store[i].id = store[j].id => i = j
  /\ (Finished("add_memory") /\ op.arg /= <<>>
        /\ op.arg[1] \in StoreIds(op.before)) =>
       /\ op.status = 500
       /\ ~op.result["success"]
       /\ store = op.before
  /\ (Finished("consolidate") /\ ~op.result["success"]) => store = op.before

\* an add under the id of a stored memory was answered with an error
C15_Witness ==
  /\ Finished("add_memory")
  /\ op.arg = <<"mA">>
  /\ op.status = 500
  /\ Len(store) = 2
  /\ \E i \in 1..Len(store) : store[i].id = "mA" /\ store[i].content = ContentA


\* C16: content is immutable once written: in every step of every operation
\* (analyze, deduplicate, consolidate, archive, enhance, auto-curate, and add
\* and delete beside them) a memory id that stays in the store keeps its
\* content, and its metadata changes only in a step of enhance_memory_quality
\* (the enhance route, or the enhancement step of auto-curate).
C16_ContentImmutable ==
  [][\A i \in 1..Len(store), j \in 1..Len(store') :
       store[i].id = store'[j].id =>
         /\ store'[j].content = store[i].content
         /\ store'[j].metadata /= store[i].metadata =>
              \/ op'.name = "enhance"
              \/ op'.name = "auto_curate" /\ op.pc = "auto_enhance"]_vars

\* an enhance call has rewritten the metadata of a memory with content
C16_Witness ==
  /\ Finished("enhance")
  /\ op.result["success"]
  /\ \E i \in 1..Len(store) :
       /\ store[i].id = op.arg[1]
       /\ NonEmpty(store[i].content)
       /\ store[i].content = Lookup(op.before, op.arg[1]).content
       /\ store[i].metadata /= Lookup(op.before, op.arg[1]).metadata


\* C17: auto_curate(dry_run=true) never mutates the store and writes no
\* snapshot: at every point of the call, through its deduplicate, archive
\* and enhance steps, the ids, contents and metadata of the store and the
\* files are those the call found.
C17_DryRunCurateKeepsAll ==
  (op.name = "auto_curate" /\ op.dry_run = "true") =>
    /\ store = op.before
    /\ files = op.beforeFiles

\* a finished dry run over a store with a duplicate, an old memory and a
\* memory the enhancement step scores below the threshold
C17_Witness ==
  /\ Finished("auto_curate")
  /\ op.dry_run = "true"
  /\ op.status = 200
  /\ op.duplicates_to_remove /= <<>>
  /\ op.to_archive /= <<>>
  /\ \E m \in Range(store) :
       QualityScore(m.metadata, ContentEmpty) < AutoEnhanceBelow
  /\ Len(op.actions) = 3


\* the memories a finished call found and left in the store
Remaining == {m \in Range(op.before) : m.id \in StoreIds(store)}

\* the call has written the metadata of the memory
Enhanced(m) == Lookup(store, m.id).metadata /= m.metadata

\* the quality score of a memory, in hundredths
Score(m) == QualityScore(m.metadata, m.content)

\* C18 as stated: auto_curate(dry_run=false) enhances at most 20 memories of
\* the store that deduplication and archival left, the lowest-scoring ones
\* with a quality score below 0.5: no memory with a score of 0.5 or more is
\* enhanced, and no memory below 0.5 is skipped while a higher-scoring one
\* is enhanced.
C18_EnhancesLowestScoring ==
  (Finished("auto_curate") /\ op.dry_run = "false" /\ op.status = 200) =>
    /\ Cardinality({m \in Remaining : Enhanced(m)}) <= AutoEnhanceLimit
    /\ \A m \in Remaining : Enhanced(m) => Score(m) < AutoEnhanceBelow
    /\ \A m, n \in Remaining :
         (Score(m) < AutoEnhanceBelow /\ ~Enhanced(m) /\ Enhanced(n)) =>
           Score(n) <= Score(m)

\* what the enhancement step does: it enhances the memories whose metadata
\* alone scores below 0.5, the content taken as empty
EnhancesByMetadataScore ==
  (Finished("auto_curate") /\ op.dry_run = "false" /\ op.status = 200) =>
    \A m \in Remaining :
      Enhanced(m) => QualityScore(m.metadata, ContentEmpty) < AutoEnhanceBelow

\* a memory that scores 0.5 or more has been enhanced
EnhancedAboveThreshold ==
  /\ Finished("auto_curate") /\ op.dry_run = "false" /\ op.status = 200
  /\ \E m \in Remaining : Enhanced(m) /\ Score(m) >= AutoEnhanceBelow


\* the memories obtained from a memory by adding one recognized signal:
\* more content, a title that is not the placeholder, technologies, a
\* complexity, a date, a source, or a fenced code block
OneMoreSignal(m) ==
  { [m EXCEPT !.content = m.content \o ContentMid],
    [m EXCEPT !.content = m.content \o ContentLong],
    [m EXCEPT !.metadata = Update(m.metadata, ("title" :> "Bug A"))],
    [m EXCEPT !.metadata = Update(m.metadata, ("technologies" :> JsonDumps(<<"sql">>)))],
    [m EXCEPT !.metadata = Update(m.metadata, ("complexity" :> "medium"))],
    [m EXCEPT !.metadata = Update(m.metadata, ("date" :> "2024-01-01"))],
    [m EXCEPT !.metadata = Update(m.metadata, ("session_date" :> "2024-01-01"))],
    [m EXCEPT !.metadata = Update(m.metadata, ("source" :> "summary"))],
    [m EXCEPT !.content = m.content \o <<CodeFence, "x = 1", CodeFence>>] }

\* C19: the quality score of every memory lies in [0,1] (0..100 hundredths),
\* and the memory with any single recognized signal added scores no less.
C19_ScoreBoundedMonotone ==
  Finished("quality_score") =>
    /\ op.result["quality_score"] \in 0..100
    /\ op.result["quality_score"] = Score(Lookup(store, op.arg[1]))
    /\ \A n \in OneMoreSignal(Lookup(store, op.arg[1])) :
         /\ Score(n) >= op.result["quality_score"]
         /\ Score(n) \in 0..100

\* a memory without a code block scores 0.85, and 1.0 with one added
C19_Witness ==
  /\ Finished("quality_score")
  /\ op.result["quality_score"] = 85
  /\ ~HasCodeBlock(Lookup(store, op.arg[1]).content)
  /\ \E n \in OneMoreSignal(Lookup(store, op.arg[1])) : Score(n) = 100


\* the ids of the memories of a collection that hold a content
IdsWith(st, content) == {m.id : m \in {x \in Range(st) : x.content = content}}

\* the groups of the exact list of a finished analysis, as sets of ids
ExactGroups ==
  IF Has(op.result, "duplicates")
    THEN {Range(op.result["duplicates"]["exact"][g]) :
            g \in 1..Len(op.result["duplicates"]["exact"])}
    ELSE {}

\* C20 as stated: in the health analysis of every collection the duplicates
\* result has an exact list in which any two memories with byte-identical
\* content appear together in one group, every group has more than one
\* member and its members share their content, and the list is empty when
\* all contents are distinct.
C20_ExactGroupsComplete ==
  (Finished("analyze") /\ op.before /= <<>>) =>
    /\ Has(op.result, "duplicates")
    /\ \A m, n \in Range(op.before) :
         (m.id /= n.id /\ m.content = n.content) =>
           \E group \in ExactGroups : {m.id, n.id} \subseteq group
    /\ \A group \in ExactGroups :
         /\ Cardinality(group) > 1
         /\ \E content \in Contents(op.before) :
              group \subseteq IdsWith(op.before, content)
    /\ (Cardinality(Contents(op.before)) = Len(op.before)) =>
         op.result["duplicates"]["exact"] = <<>>

\* what the analysis does when it reports duplicates: the groups are the
\* sets of two or more memories that share a non-empty content
NonEmptyContentsGrouped ==
  (Finished("analyze") /\ Has(op.result, "duplicates")) =>
    ExactGroups = {IdsWith(op.before, content) :
                     content \in {c \in Contents(op.before) :
                                    /\ NonEmpty(c)
                                    /\ Cardinality(IdsWith(op.before, c)) > 1}}

\* an analysis that reports duplicates leaves two memories with the same
\* (empty) content out of every group
EmptyContentsUngrouped ==
  /\ Finished("analyze")
  /\ Has(op.result, "duplicates")
  /\ \E m, n \in Range(op.before) :
       /\ m.id /= n.id
       /\ m.content = n.content
       /\ \A group \in ExactGroups : ~({m.id, n.id} \subseteq group)

\* an analysis of memories with distinct contents ends in the error result
DistinctContentsNoResult ==
  /\ Finished("analyze")
  /\ Cardinality(Contents(op.before)) = Len(op.before)
  /\ Len(op.before) > 1
  /\ ~Has(op.result, "duplicates")


\* C21: in the health report a memory is reported stale if and only if its
\* date (date, else session_date) parses and lies more than 90 days before
\* now; a memory without a date or with a date that does not parse is not
\* reported; at most 20 entries are reported.
C21_StaleIffOlder ==
  (Finished("analyze") /\ Has(op.result, "stale_memories")) =>
    /\ {op.result["stale_memories"][i].id :
          i \in 1..Len(op.result["stale_memories"])}
         = OlderIds(op.before, op.cutoff_date)
    /\ Len(op.result["stale_memories"]) <= StaleLimit

\* what the report does hold: the memories without last_accessed whose date
\* parses to a datetime without offset that lies before the cutoff
StaleIffOlderNaive ==
  (Finished("analyze") /\ Has(op.result, "stale_memories")) =>
    {op.result["stale_memories"][i].id :
       i \in 1..Len(op.result["stale_memories"])}
      = {m.id : m \in {x \in Range(op.before) :
                         /\ ~TruthyStr(x.metadata, "last_accessed")
                         /\ ParseDate(Snapshot(x).date).ok
                         /\ ~ParseDate(Snapshot(x).date).aware
                         /\ ParseDate(Snapshot(x).date).tick < op.cutoff_date}}

\* a report with a stale memory beside one whose date does not parse
StaleReported ==
  /\ Finished("analyze")
  /\ Has(op.result, "stale_memories")
  /\ Len(op.result["stale_memories"]) = 1
  /\ \E m \in Range(op.before) : ~ParseDate(Snapshot(m).date).ok


MaxContentLen == 50000

\* C23: POST /api/add_memory answers a body whose content is missing or
\* empty with 400 and adds nothing; only a body with a content of 1 to
\* 50,000 characters creates a memory.
C23_EmptyContentRejected ==
  Finished("add_memory") =>
    \/ /\ op.status \in {400, 500}
       /\ store = op.before
    \/ /\ op.status = 201
       /\ Len(store) = Len(op.before) + 1
       /\ SubSeq(store, 1, Len(op.before)) = op.before
       /\ ContentLen(store[Len(store)].content) \in 1..MaxContentLen

\* what the route does check: a body without the content key is answered
\* 400 and adds nothing
MissingContentRejected ==
  (Finished("add_memory") /\ op.arg = <<>>) =>
    /\ op.status = 400
    /\ store = op.before

\* a body with the empty content has been answered 201
EmptyContentStored ==
  /\ Finished("add_memory")
  /\ op.status = 201
  /\ store[Len(store)].content = ContentEmpty


\* the ids a finished batch run had marked for deletion
Marked ==
  IF op.name = "deduplicate" THEN op.duplicates_to_remove
  ELSE [i \in 1..Len(op.to_archive) |-> op.to_archive[i].id]

\* the count a finished batch run reports
ReportedCount ==
  IF op.name = "deduplicate" THEN op.result["removed"] ELSE op.result["archived"]

\* C24: when deduplicate_memories or archive_old_memories runs with
\* dry_run=false and the delete of some ids fails, the run still attempts
\* every remaining id, completes without raising, and reports as removed or
\* archived the number of ids actually deleted from the store.
C24_CountReducedOnFailure ==
  (op.name \in {"deduplicate", "archive"} /\ op.pc = "done"
     /\ op.dry_run = "false" /\ op.before /= <<>>) =>
    /\ op.status = 200
    /\ Range(op.deleted) \cup Range(op.failed) = Range(Marked)
    /\ ReportedCount = Len(op.deleted)
    /\ ReportedCount = Count(op.before) - Count(store)

\* what the batch runs do guarantee: every marked id is attempted, the run
\* completes, and the count reported is the number of ids marked
BatchAttemptsEveryId ==
  (op.name \in {"deduplicate", "archive"} /\ op.pc = "done"
     /\ op.dry_run = "false" /\ op.before /= <<>>) =>
    /\ op.status = 200
    /\ Range(op.deleted) \cup Range(op.failed) = Range(Marked)
    /\ Range(op.deleted) \cap StoreIds(store) = {}
    /\ Range(op.failed) \subseteq StoreIds(store)
    /\ ReportedCount = Len(Marked)

\* a run in which a delete failed and a later delete succeeded
FailedThenDeleted ==
  /\ op.name \in {"deduplicate", "archive"} /\ op.pc = "done"
  /\ op.dry_run = "false"
  /\ op.failed /= <<>> /\ op.deleted /= <<>>
  /\ ReportedCount = 2


\* the number of memories of a collection with non-empty content
NonEmptyCount(st) == Cardinality({i \in 1..Len(st) : NonEmpty(st[i].content)})

\* C25: for every collection in which fewer than two memories have non-empty
\* content, collections of two or more memories included, the duplicates
\* result has the {exact, near} shape with an empty near list, and the
\* health analysis assembles its report from it.
C25_FewContentsDegrade ==
  (Finished("analyze") /\ op.before /= <<>> /\ NonEmptyCount(op.before) < 2) =>
    /\ ~Has(op.result, "error")
    /\ Has(op.result, "duplicates")
    /\ DOMAIN op.result["duplicates"] = {"exact", "near"}
    /\ op.result["duplicates"]["near"] = <<>>

\* the shape is kept for a collection of one memory
SingleMemoryDegrades ==
  (Finished("analyze") /\ Len(op.before) = 1) =>
    /\ Has(op.result, "duplicates")
    /\ op.result["duplicates"] = ("exact" :> <<>>) @@ ("near" :> <<>>)

\* with two or more memories of which fewer than two have content, the
\* analysis ends in its error result
FewContentsFail ==
  (Finished("analyze") /\ Len(op.before) > 1 /\ NonEmptyCount(op.before) < 2) =>
    /\ Has(op.result, "error")
    /\ ~Has(op.result, "duplicates")


\* the near list of a finished analysis that reports duplicates
NearList == op.result["duplicates"]["near"]

\* the memories named by a near entry were compared and found similar
NamesComparedPair(entry) ==
  /\ entry.memory1 /= entry.memory2
  /\ {entry.memory1, entry.memory2} \subseteq StoreIds(op.before)
  /\ NonEmpty(Lookup(op.before, entry.memory1).content)
  /\ NonEmpty(Lookup(op.before, entry.memory2).content)
  /\ Similarity(Leading(Lookup(op.before, entry.memory1).content),
                Leading(Lookup(op.before, entry.memory2).content))
       > SimilarityThreshold

\* C29: every pair of the near-duplicate list names the ids of the two
\* memories whose leading contents were compared and found similar above the
\* threshold, for every collection, those with empty contents included; at
\* most 10 pairs are reported.
C29_NearPairsNameCompared ==
  (Finished("analyze") /\ Has(op.result, "duplicates")) =>
    /\ \A k \in 1..Len(NearList) : NamesComparedPair(NearList[k])
    /\ Len(NearList) <= NearLimit

\* what holds: in a collection without empty contents every pair names the
\* memories compared
NearPairsWithoutEmpty ==
  (Finished("analyze") /\ Has(op.result, "duplicates")
     /\ NonEmptyCount(op.before) = Len(op.before)) =>
    /\ \A k \in 1..Len(NearList) : NamesComparedPair(NearList[k])
    /\ Len(NearList) <= NearLimit

\* a near entry names a memory whose content is empty
NearNamesEmptyMemory ==
  /\ Finished("analyze") /\ Has(op.result, "duplicates")
  /\ \E k \in 1..Len(NearList) :
       ~NonEmpty(Lookup(op.before, NearList[k].memory1).content)


\* the memory a successful consolidate call has written
Written == store[Len(store)]

\* C26: the memory written by consolidate_memories is tagged
\* source=consolidation and complexity=high, its original_count is the number
\* of source memories that were consolidated and its consolidated_from lists
\* exactly their ids, also when only some of the requested ids are stored.
C26_ProvenanceAccurate ==
  (Finished("consolidate") /\ op.result["success"]) =>
    /\ Written.metadata["source"] = "consolidation"
    /\ Written.metadata["complexity"] = "high"
    /\ Written.metadata["original_count"] = Len(Found)
    /\ Range(Written.metadata["consolidated_from"].items) = StoreIds(Found)

\* what the written memory holds: the two tags, and as provenance the ids
\* that were requested
ProvenanceAsRequested ==
  (Finished("consolidate") /\ op.result["success"]) =>
    /\ Written.id = op.result["consolidated_id"]
    /\ Written.metadata["source"] = "consolidation"
    /\ Written.metadata["complexity"] = "high"
    /\ Written.metadata["original_count"] = Len(op.arg)
    /\ Written.metadata["consolidated_from"] = JsonDumps(op.arg)

\* one of two requested ids was stored and has been consolidated
PartlyResolved ==
  /\ Finished("consolidate") /\ op.result["success"]
  /\ Len(op.arg) = 2
  /\ Len(Found) = 1
  /\ Written.metadata["original_count"] = 2


\* C27: in auto_curate the failure of an individual step is swallowed: the
\* call goes through its steps to the end, whatever failed in deduplication,
\* archival or the enhancement of a memory, and returns its action log with
\* success.
C27_CurateSwallowsFailures ==
  Finished("auto_curate") =>
    /\ op.status = 200
    /\ op.result["success"]
    /\ Has(op.result, "actions_taken")

\* what holds: over a store that is not empty the call returns its action
\* log with success, failed deletes included
CurateOverMemoriesReturnsLog ==
  (Finished("auto_curate") /\ op.before /= <<>>) =>
    /\ op.status = 200
    /\ op.result["success"]
    /\ Has(op.result, "actions_taken")

\* a call in which a delete failed has returned its action log
CurateReturnedAfterFailedDelete ==
  /\ Finished("auto_curate")
  /\ op.status = 200
  /\ op.failed /= <<>>
  /\ Len(op.result["actions_taken"]) >= 2


\* the collection the first of two finished calls read
Initial == IF Len(op.before) >= Len(op2.before) THEN op.before ELSE op2.before

\* both calls have run to their end and none of their deletes failed
BothDone ==
  /\ op.name = "deduplicate" /\ op.pc = "done"
  /\ op2.name = "deduplicate" /\ op2.pc = "done"
  /\ op.failed = <<>> /\ op2.failed = <<>>

\* C28: for every interleaving of two concurrent
\* deduplicate_memories(dry_run=false) calls on one store, a delete of an id
\* the other call has deleted is a no-op, both calls complete, and the final
\* store holds for every content present initially exactly one memory, the
\* first-seen one, and nothing else.
C28_RacingDedupsConverge ==
  BothDone =>
    /\ op.status = 200 /\ op2.status = 200
    /\ (Range(op.deleted) \cup Range(op2.deleted)) \cap StoreIds(store) = {}
    /\ \A c \in Contents(Initial) :
         /\ Cardinality({i \in 1..Len(store) : store[i].content = c}) = 1
         /\ FirstWith(Initial, c) \in Range(store)
    /\ \A i \in 1..Len(store) : store[i] = FirstWith(Initial, store[i].content)

\* both calls read the same collection and both deleted the same id
C28_Witness ==
  /\ BothDone
  /\ op2.before = op.before
  /\ Len(op.before) >= 3
  /\ Range(op.deleted) \cap Range(op2.deleted) /= {}
  /\ Cardinality(Contents(store)) >= 2


\* C30: a consolidate_memories call that repeats the ids of the successful
\* call before it, on the store that call left, creates no second
\* consolidated memory: it returns success=false with the error of the add
\* and leaves the store exactly as the first call left it.
C30_RetryConsolidateIsSafe ==
  [][(/\ Finished("consolidate") /\ op.result["success"]
      /\ op'.name = "consolidate" /\ op'.pc = "done"
      /\ op'.arg = op.arg
      /\ op' /= op) =>
       /\ ~op'.result["success"]
       /\ op'.result["error"] = "add failed"
       /\ store' = store]_vars

\* a retry has been refused: the store already held the consolidated memory
\* of the same ids
C30_Witness ==
  /\ Finished("consolidate")
  /\ ~op.result["success"]
  /\ op.result["error"] = "add failed"
  /\ store = op.before
  /\ Cardinality({i \in 1..Len(store) :
       /\ Get(store[i].metadata, "source", "") = "consolidation"
       /\ store[i].metadata["consolidated_from"] = JsonDumps(op.arg)}) = 1


====
